---------------------------- MODULE Spec2Model ----------------------------
(***************************************************************************)
(* A model of the DirectX device discovery library (library/src).          *)
(*                                                                         *)
(* The session object DeviceDiscoveryImp owns an AdapterEnumeration, a     *)
(* WmiQuery, a device list and a last-error string.  DiscoverDevices runs  *)
(* three stages: EnumerateAdapters (DXCore), GetDevicesForAdapters (WMI)   *)
(* and FillDriverDetails (registry / D3DKMT) for every device.             *)
(*                                                                         *)
(* The platform services (DXCore, WMI, the registry) are the environment:  *)
(* their answers are drawn from bounded sets.                              *)
(***************************************************************************)
EXTENDS Integers, Sequences, FiniteSets, TLC

VARIABLES
    platform,      \* the adapters DXCore currently reports, in its order
    enumeration,   \* DeviceDiscoveryImp::enumeration (NullPtr or the object)
    wmi,           \* DeviceDiscoveryImp::wmi (NullPtr or the object)
    devices,       \* DeviceDiscoveryImp::devices
    lastError,     \* DeviceDiscoveryImp::lastError
    call,          \* the last operation invoked, with its arguments
    outcome,       \* how that operation ended: returned / escaped / crashed
    ret,           \* the value it returned
    succeeded      \* history: some DiscoverDevices call has returned true

vars == <<platform, enumeration, wmi, devices, lastError, call, outcome, ret, succeeded>>

-----------------------------------------------------------------------------
(* Bounds of the model *)

\* adapter LUIDs are 1..MaxLuid
MaxLuid == 2

\* the platform reports at most MaxAdapters adapter entries
MaxAdapters == 2

-----------------------------------------------------------------------------
(* Values *)

\* an empty unique_ptr; a unique_ptr that owns obj is <<obj>>
NullPtr == << >>

EmptyMap == << >>

\* DeviceFilter.h: enum class DeviceFilter
AllDevices == "AllDevices"
DisplaySupported == "DisplaySupported"
ComputeSupported == "ComputeSupported"
DisplayOnly == "DisplayOnly"
ComputeOnly == "ComputeOnly"
DisplayAndCompute == "DisplayAndCompute"

DeviceFilter ==
    {AllDevices, DisplaySupported, ComputeSupported, DisplayOnly, ComputeOnly, DisplayAndCompute}

\* the DXCore adapter attributes the library queries
D3D11_GRAPHICS == "DXCORE_ADAPTER_ATTRIBUTE_D3D11_GRAPHICS"
D3D12_GRAPHICS == "DXCORE_ADAPTER_ATTRIBUTE_D3D12_GRAPHICS"
D3D12_CORE_COMPUTE == "DXCORE_ADAPTER_ATTRIBUTE_D3D12_CORE_COMPUTE"

Luids == 1..MaxLuid

-----------------------------------------------------------------------------
(* The adapters the platform may report (IDXCoreAdapter objects).          *)
(* attrs is the set of attributes IsAttributeSupported answers true for.   *)

\* a legacy display adapter, a full Direct3D 12 adapter, a compute-only adapter
AttributeSets ==
    { {D3D11_GRAPHICS},
      {D3D11_GRAPHICS, D3D12_GRAPHICS, D3D12_CORE_COMPUTE},
      {D3D12_CORE_COMPUTE} }

\* the hardware id of an adapter entry: one vendor for integrated parts, one for the rest
HardwareIDOf(isIntegrated) == IF isIntegrated THEN "VEN_8086" ELSE "VEN_10DE"

DXCoreAdapter(luid, isHardware, isIntegrated, isDetachable, attrs) ==
    [ InstanceLuid |-> luid,
      HardwareID   |-> HardwareIDOf(isIntegrated),
      IsHardware   |-> isHardware,
      IsIntegrated |-> isIntegrated,
      IsDetachable |-> isDetachable,
      attrs        |-> attrs ]

\* hardware adapters of every placement and attribute set
HardwareAdapters ==
    { DXCoreAdapter(l, TRUE, i, d, a) : l \in Luids, i \in BOOLEAN, d \in BOOLEAN, a \in AttributeSets }

\* the software rasteriser: it supports every attribute and is not hardware
SoftwareAdapters ==
    { DXCoreAdapter(l, FALSE, FALSE, FALSE, {D3D11_GRAPHICS, D3D12_GRAPHICS, D3D12_CORE_COMPUTE}) :
        l \in Luids }

PlatformAdapters == HardwareAdapters \cup SoftwareAdapters

RECURSIVE SeqsUpTo(_, _)
SeqsUpTo(S, n) ==
    IF n = 0 THEN { << >> }
    ELSE LET shorter == SeqsUpTo(S, n - 1)
         IN  shorter \cup { Append(s, x) : s \in { t \in shorter : Len(t) = n - 1 }, x \in S }

\* every sequence of at most MaxAdapters adapter entries; two entries may carry the same LUID
Populations == SeqsUpTo(PlatformAdapters, MaxAdapters)

-----------------------------------------------------------------------------
(* AdapterEnumeration *)

\* Adapter.h: struct Adapter, as filled in by ExtractAdapterDetails
ExtractAdapterDetails(adapter) ==
    [ InstanceLuid    |-> adapter.InstanceLuid,
      HardwareID      |-> adapter.HardwareID,
      IsHardware      |-> adapter.IsHardware,
      IsIntegrated    |-> adapter.IsIntegrated,
      IsDetachable    |-> adapter.IsDetachable,
      SupportsDisplay |-> (D3D11_GRAPHICS \in adapter.attrs) \/ (D3D12_GRAPHICS \in adapter.attrs),
      SupportsCompute |-> D3D12_GRAPHICS \in adapter.attrs ]

CreateAdapterListUnfiltered(population, attribute) ==
    [ attribute |-> attribute, adapters |-> population, null |-> FALSE, stale |-> FALSE ]

\* IDXCoreAdapterFactory::CreateAdapterList: the platform's adapters that support the attribute
CreateAdapterList(population, attribute) ==
    [ attribute |-> attribute,
      adapters  |-> SelectSeq(population, LAMBDA a : attribute \in a.attrs),
      null      |-> FALSE,
      stale     |-> FALSE ]

\* the com_ptr that push_back(nullptr) leaves when CreateAdapterList fails
NullAdapterList == [ attribute |-> "", adapters |-> << >>, null |-> TRUE, stale |-> FALSE ]

\* the attributes EnumerateAdapters queries for a filter, in the order it queries them
QueriedAttributes(filter) ==
    (IF filter # ComputeOnly /\ filter # DisplayAndCompute THEN <<D3D11_GRAPHICS>> ELSE << >>)
    \o (IF filter # ComputeOnly THEN <<D3D12_GRAPHICS>> ELSE << >>)
    \o (IF filter # DisplayOnly THEN <<D3D12_CORE_COMPUTE>> ELSE << >>)

IgnoreSoftwareKeepAll(details) == FALSE

\* "Ignore software devices"
IgnoreSoftware(details) == ~details.IsHardware

FilterMismatchAlways(filter, details) == FALSE

\* "If the adapter does not match our filter mode then ignore it"
FilterMismatch(filter, details) ==
    \/ filter = DisplayOnly /\ details.SupportsCompute
    \/ filter = ComputeOnly /\ details.SupportsDisplay
    \/ filter = DisplayAndCompute /\ (~details.SupportsDisplay \/ ~details.SupportsCompute)

GatedOutNever(details, includeIntegrated, includeDetachable) == FALSE

\* the integrated and detachable gates
GatedOut(details, includeIntegrated, includeDetachable) ==
    \/ details.IsIntegrated /\ ~includeIntegrated
    \/ details.IsDetachable /\ ~includeDetachable

MapInsertOverwrite(m, key, value) ==
    [ k \in (DOMAIN m) \cup {key} |-> IF k = key THEN value ELSE m[k] ]

\* std::map::insert: an existing key keeps its value
MapInsert(m, key, value) ==
    IF key \in DOMAIN m THEN m
    ELSE [ k \in (DOMAIN m) \cup {key} |-> IF k = key THEN value ELSE m[k] ]

\* the body of the processing loop for one adapter
ProcessAdapter(unique, adapter, filter, includeIntegrated, includeDetachable) ==
    LET details == ExtractAdapterDetails(adapter)
    IN  IF \/ IgnoreSoftware(details)
           \/ FilterMismatch(filter, details)
           \/ GatedOut(details, includeIntegrated, includeDetachable)
        THEN unique
        ELSE MapInsert(unique, details.InstanceLuid, details)

RECURSIVE ProcessAdapters(_, _, _, _, _)
ProcessAdapters(unique, adapters, filter, includeIntegrated, includeDetachable) ==
    IF adapters = << >> THEN unique
    ELSE ProcessAdapters(
             ProcessAdapter(unique, Head(adapters), filter, includeIntegrated, includeDetachable),
             Tail(adapters), filter, includeIntegrated, includeDetachable)

\* the adapters of all lists, in the order the nested loops visit them
RECURSIVE Flatten(_)
Flatten(lists) ==
    IF lists = << >> THEN << >> ELSE Head(lists).adapters \o Flatten(Tail(lists))

NoFault == [ kind |-> "none", at |-> 0 ]

\* a newly constructed AdapterEnumeration
NewAdapterEnumeration == [ adapterLists |-> << >>, uniqueAdapters |-> EmptyMap ]

KeepAdapterEnumeration(object) == object

\* "Clear our adapter lists and our set of unique adapters"
ClearAdapterEnumeration(object) == [ adapterLists |-> << >>, uniqueAdapters |-> EmptyMap ]

(***************************************************************************)
(* AdapterEnumeration::EnumerateAdapters.  fault says where the platform   *)
(* fails, if it does: CreateAdapterList for the at-th queried attribute,   *)
(* or GetAdapter / GetProperty for the at-th adapter visited.  object is   *)
(* the AdapterEnumeration before the call; the result is its state when    *)
(* the call returns or throws.                                             *)
(***************************************************************************)
EnumerateAdaptersOn(object, population, filter, includeIntegrated, includeDetachable, fault) ==
    LET cleared    == ClearAdapterEnumeration(object)
        attributes == QueriedAttributes(filter)
        listFails  == fault.kind = "CreateAdapterList" /\ fault.at \in 1..Len(attributes)
        created    == cleared.adapterLists
                      \o [ i \in 1..(IF listFails THEN fault.at - 1 ELSE Len(attributes)) |->
                             CreateAdapterList(population, attributes[i]) ]
        visited    == Flatten(created)
        getFails   == ~listFails /\ fault.kind = "GetAdapter" /\ fault.at \in 1..Len(visited)
        processed  == IF getFails THEN SubSeq(visited, 1, fault.at - 1) ELSE visited
    IN  IF listFails
        THEN [ threw          |-> TRUE,
               message        |-> "IDXCoreAdapterFactory::CreateAdapterList() failed",
               adapterLists   |-> Append(created, NullAdapterList),
               uniqueAdapters |-> cleared.uniqueAdapters ]
        ELSE [ threw          |-> getFails,
               message        |-> IF getFails THEN "IDXCoreAdapterList::GetAdapter() failed" ELSE "",
               adapterLists   |-> created,
               uniqueAdapters |-> ProcessAdapters(cleared.uniqueAdapters, processed, filter,
                                                  includeIntegrated, includeDetachable) ]

\* the call on a newly constructed AdapterEnumeration
EnumerateAdapters(population, filter, includeIntegrated, includeDetachable, fault) ==
    EnumerateAdaptersOn(NewAdapterEnumeration, population, filter, includeIntegrated,
                        includeDetachable, fault)

\* AdapterEnumeration::GetUniqueAdapters
GetUniqueAdapters(enum) == enum.uniqueAdapters


-----------------------------------------------------------------------------
(* Errors.  A thrown exception is its C++ type; NoThrow is a normal return. *)

NoThrow == "none"
DeviceDiscoveryError == "DeviceDiscoveryError"
InvalidArgument == "std::invalid_argument"

-----------------------------------------------------------------------------
(* WmiQuery *)

\* a newly constructed WmiQuery
NewWmiQuery == [ devPropKeyLUID |-> "{60B193CB-5276-4D0F-96FC-F173ABAD3EC6} 2" ]

\* VARIANT values of the properties GetDeviceProperties returns; NoData is a property
\* whose Data cannot be retrieved
VtI8(n) == [ vt |-> "VT_I8", val |-> n ]
VtBstr(str) == [ vt |-> "VT_BSTR", val |-> str ]
VtBstrArray(strs) == [ vt |-> "VT_ARRAY|VT_BSTR", val |-> strs ]
VtEmpty == [ vt |-> "VT_EMPTY", val |-> 0 ]
NoData == [ vt |-> "NoData", val |-> 0 ]

DigitChars == {"0", "1", "2", "3", "4", "5", "6", "7", "8", "9"}

DigitValue(c) ==
    CASE c = "0" -> 0 [] c = "1" -> 1 [] c = "2" -> 2 [] c = "3" -> 3 [] c = "4" -> 4
      [] c = "5" -> 5 [] c = "6" -> 6 [] c = "7" -> 7 [] c = "8" -> 8 [] c = "9" -> 9

RECURSIVE SkipSpaces(_)
SkipSpaces(str) ==
    IF str # << >> /\ Head(str) = " " THEN SkipSpaces(Tail(str)) ELSE str

RECURSIVE LeadingDigits(_)
LeadingDigits(str) ==
    IF str # << >> /\ Head(str) \in DigitChars
    THEN <<Head(str)>> \o LeadingDigits(Tail(str)) ELSE << >>

RECURSIVE DecimalValue(_, _)
DecimalValue(digits, acc) ==
    IF digits = << >> THEN acc
    ELSE DecimalValue(Tail(digits), 10 * acc + DigitValue(Head(digits)))

(***************************************************************************)
(* std::stoll on a string given as its sequence of characters: leading     *)
(* white space is skipped, a sign is accepted, the longest run of digits   *)
(* is converted and what follows it is ignored; with no digit to convert   *)
(* it throws std::invalid_argument.                                        *)
(***************************************************************************)
Stoll(str) ==
    LET s1     == SkipSpaces(str)
        signed == s1 # << >> /\ Head(s1) \in {"-", "+"}
        s2     == IF signed THEN Tail(s1) ELSE s1
        digits == LeadingDigits(s2)
        value  == DecimalValue(digits, 0)
    IN  IF digits = << >>
        THEN [ threw |-> InvalidArgument, value |-> 0 ]
        ELSE [ threw |-> NoThrow,
               value |-> IF signed /\ Head(s1) = "-" THEN 0 - value ELSE value ]

\* Adapter.h: the default-constructed Adapter
DefaultAdapter ==
    [ InstanceLuid    |-> 0,
      HardwareID      |-> "",
      IsHardware      |-> FALSE,
      IsIntegrated    |-> FALSE,
      IsDetachable    |-> FALSE,
      SupportsDisplay |-> FALSE,
      SupportsCompute |-> FALSE ]

\* Device.h: the default-constructed Device
DefaultDevice ==
    [ DeviceAdapter     |-> DefaultAdapter,
      ID                |-> "",
      Description       |-> "",
      DriverRegistryKey |-> "",
      DriverStorePath   |-> << >>,
      LocationPath      |-> "",
      RuntimeFiles      |-> << >>,
      RuntimeFilesWow64 |-> << >>,
      Vendor            |-> "" ]

ClassKeyPrefix == "HKEY_LOCAL_MACHINE\\SYSTEM\\CurrentControlSet\\Control\\Class\\"

Thrown(type, message) == [ threw |-> type, message |-> message, details |-> DefaultDevice ]

\* the conversion ExtractDeviceDetails applies to a VT_BSTR adapter LUID
ParseLuidString(str) == Stoll(str)

(***************************************************************************)
(* WmiQuery::ExtractDeviceDetails on one Win32_PnPEntity object.  The      *)
(* entity's fields are what the platform returns for its properties;       *)
(* methodFails is a failing GetDeviceProperties invocation.                *)
(***************************************************************************)
ExtractDeviceDetails(entity) ==
    LET parsed == IF entity.AdapterLuid.vt = "VT_BSTR"
                  THEN ParseLuidString(entity.AdapterLuid.val)
                  ELSE [ threw |-> NoThrow, value |-> 0 ]
    IN  IF entity.methodFails
        THEN Thrown(DeviceDiscoveryError, "failed to invoke Win32_PnPEntity::GetDeviceProperties()")
        ELSE IF entity.Driver.vt \notin {"NoData", "VT_BSTR"}
        THEN Thrown(DeviceDiscoveryError, "DeviceDriver value was not a string")
        ELSE IF entity.LocationPaths.vt \notin {"NoData", "VT_ARRAY|VT_BSTR"}
        THEN Thrown(DeviceDiscoveryError, "LocationPaths value was not an array of strings")
        ELSE IF entity.AdapterLuid.vt \notin {"NoData", "VT_I8", "VT_BSTR"}
        THEN Thrown(DeviceDiscoveryError, "LUID value was not a 64-bit integer or a string")
        ELSE IF parsed.threw # NoThrow
        THEN Thrown(parsed.threw, "invalid stoll argument")
        ELSE [ threw   |-> NoThrow,
               message |-> "",
               details |->
                 [ DefaultDevice EXCEPT
                     !.ID = entity.DeviceID,
                     !.Description = entity.Description,
                     !.Vendor = entity.Manufacturer,
                     !.DriverRegistryKey =
                         IF entity.Driver.vt = "VT_BSTR"
                         THEN ClassKeyPrefix \o entity.Driver.val ELSE "",
                     !.LocationPath =
                         IF entity.LocationPaths.vt = "VT_ARRAY|VT_BSTR"
                         THEN entity.LocationPaths.val[1] ELSE "",
                     !.DeviceAdapter =
                         [ DefaultAdapter EXCEPT
                             !.InstanceLuid =
                                 CASE entity.AdapterLuid.vt = "VT_I8" -> entity.AdapterLuid.val
                                   [] entity.AdapterLuid.vt = "VT_BSTR" -> parsed.value
                                   [] OTHER -> 0 ] ] ]

MatchDevicesKeepPlaceholder(matched, entities, index, adapters, nextFailsAt) ==
    LET kept == SelectSeq(entities,
                          LAMBDA e : ExtractDeviceDetails(e).details.DeviceAdapter.InstanceLuid
                                       \in DOMAIN adapters)
    IN  [ threw |-> NoThrow, message |-> "",
          devices |-> [ i \in 1..Len(kept) |-> ExtractDeviceDetails(kept[i]).details ] ]

\* the matching loop of GetDevicesForAdapters over the entities the enumerator returns
RECURSIVE MatchDevices(_, _, _, _, _)
MatchDevices(matched, entities, index, adapters, nextFailsAt) ==
    IF index = nextFailsAt
    THEN [ threw |-> DeviceDiscoveryError, message |-> "enumerating PnP devices failed",
           devices |-> matched ]
    ELSE IF index > Len(entities)
    THEN [ threw |-> NoThrow, message |-> "", devices |-> matched ]
    ELSE LET extracted == ExtractDeviceDetails(entities[index])
             luid      == extracted.details.DeviceAdapter.InstanceLuid
         IN  IF extracted.threw # NoThrow
             THEN [ threw |-> extracted.threw, message |-> extracted.message, devices |-> matched ]
             ELSE MatchDevices(
                      IF luid \in DOMAIN adapters
                      THEN Append(matched, [ extracted.details EXCEPT !.DeviceAdapter = adapters[luid] ])
                      ELSE matched,
                      entities, index + 1, adapters, nextFailsAt)

GetDevicesUnmatched(adapters, pnp) ==
    [ threw |-> NoThrow, message |-> "",
      devices |-> [ i \in 1..Len(pnp.entities) |-> ExtractDeviceDetails(pnp.entities[i]).details ] ]

(***************************************************************************)
(* WmiQuery::GetDevicesForAdapters.  pnp is the WMI service's answer:      *)
(* execFails (ExecQuery fails), entities (the Win32_PnPEntity objects that *)
(* are present) and nextFailsAt (the Next call that fails, 0 for none).    *)
(* The WQL query selects the entities whose DeviceID matches the hardware  *)
(* id of one of the adapters.                                              *)
(***************************************************************************)
GetDevicesForAdapters(adapters, pnp) ==
    LET hardwareIDs == { adapters[luid].HardwareID : luid \in DOMAIN adapters }
        selected    == SelectSeq(pnp.entities, LAMBDA e : e.HardwareID \in hardwareIDs)
    IN  IF DOMAIN adapters = {}
        THEN [ threw |-> NoThrow, message |-> "", devices |-> << >> ]
        ELSE IF pnp.execFails
        THEN [ threw |-> DeviceDiscoveryError, message |-> "WQL query execution failed",
               devices |-> << >> ]
        ELSE MatchDevices(<< >>, selected, 1, adapters, pnp.nextFailsAt)

-----------------------------------------------------------------------------
(***************************************************************************)
(* Platform resources of WmiQuery::ExtractDeviceDetails.  A resource is    *)
(* the kind of thing acquired and the C++ object that holds it.  The wil   *)
(* and winrt holders and SafeArrayIterator release what they hold when     *)
(* their scope is left, by return, by continue or by a thrown exception; a *)
(* raw pointer releases nothing.                                           *)
(***************************************************************************)

Held(kind, holder) == [ kind |-> kind, holder |-> holder ]

UniqueVariant == "wil::unique_variant"
ComPtr == "winrt::com_ptr"
ArrayLock == "SafeArrayIterator"
RawPointer == "IWbemClassObject*"

\* the holders whose destructor releases the resource
ReleasingHolders == { UniqueVariant, ComPtr, ArrayLock }

\* what one iteration of the loop over the deviceProperties array acquires for a property
\* whose Data is value: the reference QueryInterface returns in `object`, the KeyName and
\* Data variants, and for DEVPKEY_Device_LocationPaths the lock of the array
PropertyResources(keyName, value) ==
    << Held("COM reference of property " \o keyName, RawPointer),
       Held("VARIANT KeyName", UniqueVariant) >>
    \o (IF value.vt = "NoData" THEN << >> ELSE << Held("VARIANT Data", UniqueVariant) >>)
    \o (IF keyName = "LocationPaths" /\ value.vt = "VT_ARRAY|VT_BSTR"
        THEN << Held("SAFEARRAY lock of LocationPaths", ArrayLock) >> ELSE << >>)

\* the iteration throws: the Data of the property is not of a type the code accepts
PropertyThrows(keyName, value) ==
    CASE keyName = "Driver" -> value.vt \notin {"NoData", "VT_BSTR"}
      [] keyName = "LocationPaths" -> value.vt \notin {"NoData", "VT_ARRAY|VT_BSTR"}
      [] keyName = "AdapterLuid" ->
           \/ value.vt \notin {"NoData", "VT_I8", "VT_BSTR"}
           \/ value.vt = "VT_BSTR" /\ ParseLuidString(value.val).threw # NoThrow

\* the properties in the order of the deviceProperties array
PropertyKeys == << "Driver", "LocationPaths", "AdapterLuid" >>

RECURSIVE LoopResources(_, _)
LoopResources(entity, index) ==
    IF index > Len(PropertyKeys) THEN << >>
    ELSE LET keyName == PropertyKeys[index]
         IN  PropertyResources(keyName, entity[keyName])
             \o (IF PropertyThrows(keyName, entity[keyName]) THEN << >>
                 ELSE LoopResources(entity, index + 1))

\* everything one ExtractDeviceDetails call acquires, in the order it acquires it
AcquiredByExtract(entity) ==
    << Held("VARIANT DeviceID", UniqueVariant),
       Held("VARIANT Description", UniqueVariant),
       Held("VARIANT Manufacturer", UniqueVariant),
       Held("VARIANT __Path", UniqueVariant),
       Held("COM reference of inputArgs", ComPtr),
       Held("VARIANT devicePropertyKeys", UniqueVariant) >>
    \o (IF entity.methodFails THEN << >>
        ELSE << Held("COM reference of callResult", ComPtr),
                Held("COM reference of returnValue", ComPtr),
                Held("VARIANT deviceProperties", UniqueVariant),
                Held("SAFEARRAY lock of deviceProperties", ArrayLock) >>
             \o LoopResources(entity, 1))

\* what is still held once the call has returned or thrown
StillHeld(acquired) == SelectSeq(acquired, LAMBDA r : r.holder \notin ReleasingHolders)

-----------------------------------------------------------------------------
(* RegistryQuery and QueryD3DRegistryInfo *)
(* A path is the sequence of its segments; the first segment of a path     *)
(* that begins with the \SystemRoot prefix is SystemRootPrefix.            *)

SystemRootPrefix == "\\SystemRoot"
SystemRoot == "C:\\Windows"
HostDriverStore == "HostDriverStore"

\* the four sub-keys FillDriverDetails reads, in the order it reads them
RuntimeFileKeys ==
    << [ key |-> "CopyToVmOverwrite",      isWow64 |-> FALSE ],
       [ key |-> "CopyToVmWhenNewer",      isWow64 |-> FALSE ],
       [ key |-> "CopyToVmOverwriteWow64", isWow64 |-> TRUE ],
       [ key |-> "CopyToVmWhenNewerWow64", isWow64 |-> TRUE ] >>

(* A registry string (a runtime file's source path or destination name) is  *)
(* the sequence of its characters.                                         *)

\* the directory separators of std::filesystem::path on Windows
Separators == { "\\", "/" }

\* where the root name of a path ends: after the colon of a drive ("C:"), else 0
RootNameEnd(path) ==
    IF Len(path) >= 2 /\ path[2] = ":" /\ path[1] \notin Separators \cup {".", ":"} \cup DigitChars
    THEN 2 ELSE 0

\* std::filesystem::path::filename: what follows the last separator and the root name
Filename(path) ==
    LET stops == { i \in 1..Len(path) : path[i] \in Separators } \cup { RootNameEnd(path) }
        last  == CHOOSE i \in stops : \A j \in stops : j <= i
    IN  SubSeq(path, last + 1, Len(path))

RuntimeFileKeepEmpty(SourcePath, DestinationFilename) ==
    [ SourcePath |-> SourcePath, DestinationFilename |-> DestinationFilename ]

\* Device.h: the RuntimeFile constructor
RuntimeFile(SourcePath, DestinationFilename) ==
    [ SourcePath          |-> SourcePath,
      DestinationFilename |-> IF DestinationFilename = << >> THEN Filename(SourcePath)
                              ELSE DestinationFilename ]

(***************************************************************************)
(* RegistryQuery::EnumerateMultiStringValues on an opened key.  values is  *)
(* what RegEnumValueW returns, in its order: name, type and the decoded    *)
(* strings; enumFailsAt is the RegEnumValueW call that fails (0: none).    *)
(* The result maps each value name to its strings.                         *)
(***************************************************************************)
RECURSIVE EnumerateMultiStringValues(_, _, _, _)
EnumerateMultiStringValues(collected, values, index, enumFailsAt) ==
    IF index = enumFailsAt
    THEN [ threw |-> DeviceDiscoveryError, values |-> collected ]
    ELSE IF index > Len(values)
    THEN [ threw |-> NoThrow, values |-> collected ]
    ELSE IF values[index].type # "REG_MULTI_SZ"
    THEN [ threw |-> DeviceDiscoveryError, values |-> collected ]
    ELSE EnumerateMultiStringValues(
             MapInsert(collected, values[index].name, values[index].strings),
             values, index + 1, enumFailsAt)

RECURSIVE AppendRuntimeFilesUnchecked(_, _, _)
AppendRuntimeFilesUnchecked(list, files, names) ==
    IF names = {} THEN list
    ELSE LET name    == CHOOSE n \in names : \A m \in names : n <= m
             strings == files[name]
         IN  AppendRuntimeFilesUnchecked(
                 IF strings # << >>
                 THEN Append(list, RuntimeFile(strings[1], IF Len(strings) = 2 THEN strings[2] ELSE << >>))
                 ELSE list,
                 files, names \ {name})

\* the loop of ProcessRuntimeFiles over the values of one key, in ascending order of name
RECURSIVE AppendRuntimeFiles(_, _, _)
AppendRuntimeFiles(list, files, names) ==
    IF names = {} THEN list
    ELSE LET name    == CHOOSE n \in names : \A m \in names : n <= m
             strings == files[name]
             newFile == RuntimeFile(strings[1], IF Len(strings) = 2 THEN strings[2] ELSE << >>)
             clash   == \E i \in 1..Len(list) :
                            list[i].DestinationFilename = newFile.DestinationFilename
         IN  AppendRuntimeFiles(
                 IF strings # << >> /\ ~clash THEN Append(list, newFile) ELSE list,
                 files, names \ {name})

ProcessRuntimeFilesKeepPartial(device, keyAnswer, isWow64) ==
    LET list  == IF isWow64 THEN device.RuntimeFilesWow64 ELSE device.RuntimeFiles
        files == EnumerateMultiStringValues(EmptyMap, keyAnswer.values, 1, keyAnswer.enumFailsAt)
        added == AppendRuntimeFiles(list, files.values, DOMAIN files.values)
    IN  IF keyAnswer.openFails THEN device
        ELSE IF isWow64 THEN [ device EXCEPT !.RuntimeFilesWow64 = added ]
             ELSE [ device EXCEPT !.RuntimeFiles = added ]

(***************************************************************************)
(* RegistryQuery::ProcessRuntimeFiles.  keyAnswer is the registry's answer *)
(* for the sub-key: openFails, values, enumFailsAt.  A failure is caught   *)
(* and leaves the device as it was.                                        *)
(***************************************************************************)
ProcessRuntimeFiles(device, keyAnswer, isWow64) ==
    LET list  == IF isWow64 THEN device.RuntimeFilesWow64 ELSE device.RuntimeFiles
        files == EnumerateMultiStringValues(EmptyMap, keyAnswer.values, 1, keyAnswer.enumFailsAt)
        added == AppendRuntimeFiles(list, files.values, DOMAIN files.values)
    IN  IF keyAnswer.openFails \/ files.threw # NoThrow
        THEN device
        ELSE IF isWow64 THEN [ device EXCEPT !.RuntimeFilesWow64 = added ]
             ELSE [ device EXCEPT !.RuntimeFiles = added ]

(***************************************************************************)
(* QueryD3DRegistryInfo::PerformQuery.  query is the kernel's answer: the  *)
(* D3DKMTQueryAdapterInfo call that returns a failure NTSTATUS (ntFailsAt, *)
(* 0: none), how many calls report BUFFER_OVERFLOW before one reports      *)
(* another status (overflows), that status (SUCCESS or FAIL) and the       *)
(* output string the last call leaves in the buffer.  Only the NTSTATUS    *)
(* and BUFFER_OVERFLOW are examined.                                       *)
(***************************************************************************)
RECURSIVE PerformQuery(_, _)
PerformQuery(query, attempt) ==
    IF attempt = query.ntFailsAt
    THEN [ threw |-> DeviceDiscoveryError, Status |-> "", OutputString |-> << >> ]
    ELSE IF attempt <= query.overflows
    THEN PerformQuery(query, attempt + 1)
    ELSE [ threw |-> NoThrow, Status |-> query.status, OutputString |-> query.OutputString ]

-----------------------------------------------------------------------------
(***************************************************************************)
(* QueryD3DRegistryInfo, request by request.  The object is its            *)
(* D3DDDI_QUERYREGISTRY_INFO fields with the size of the trailing buffer   *)
(* that follows the struct.  A backend is the kernel's side of             *)
(* D3DKMTQueryAdapterInfo: the call that returns a failure NTSTATUS        *)
(* (ntFailsAt, 0: none), the output size it requires at each call (need,   *)
(* the last entry for all later calls; a greedy backend always requires    *)
(* more than it is given) and the status it reports once the buffer is     *)
(* large enough.                                                           *)
(***************************************************************************)

MaxBuffer == 3

BufferOverflow == "D3DDDI_QUERYREGISTRY_STATUS_BUFFER_OVERFLOW"

\* QueryD3DRegistryInfo::QueryD3DRegistryInfo: Resize(0) on a zeroed allocation; the
\* enumerators with value 0 are SERVICEKEY and STATUS_SUCCESS
NewQueryD3DRegistryInfo ==
    [ QueryType |-> "D3DDDI_QUERYREGISTRY_SERVICEKEY", TranslatePath |-> 0, ValueName |-> "",
      ValueType |-> 0, PhysicalAdapterIndex |-> 0,
      Status |-> "D3DDDI_QUERYREGISTRY_STATUS_SUCCESS", OutputValueSize |-> 0, trailing |-> 0 ]

\* QueryD3DRegistryInfo::SetFilesystemQuery
SetFilesystemQuery(info, queryType) ==
    [ info EXCEPT !.ValueName = "", !.TranslatePath = 0, !.QueryType = queryType,
                  !.ValueType = 0 ]

\* QueryD3DRegistryInfo::SetAdapterKeyQuery
SetAdapterKeyQuery(info, name, valueType, translatePaths) ==
    [ info EXCEPT !.ValueName = name, !.TranslatePath = IF translatePaths THEN 1 ELSE 0,
                  !.QueryType = "D3DDDI_QUERYREGISTRY_ADAPTERKEY", !.ValueType = valueType ]

ResizeWithoutCopy(info, trailingBuffer) ==
    [ NewQueryD3DRegistryInfo EXCEPT !.trailing = trailingBuffer ]

\* QueryD3DRegistryInfo::Resize: a new allocation that receives the old struct's fields
Resize(info, trailingBuffer) == [ info EXCEPT !.trailing = trailingBuffer ]

\* the request fields a D3DKMTQueryAdapterInfo call hands to the kernel
RequestOf(info) ==
    [ QueryType |-> info.QueryType, TranslatePath |-> info.TranslatePath,
      ValueName |-> info.ValueName, ValueType |-> info.ValueType,
      trailing |-> info.trailing ]

\* the kernel's answer to the attempt-th call, made with a trailing buffer of that size
BackendAnswer(backend, attempt, trailing) ==
    LET required == IF backend.greedy THEN trailing + 1
                    ELSE backend.need[IF attempt < Len(backend.need) THEN attempt
                                      ELSE Len(backend.need)]
    IN  [ failed          |-> attempt = backend.ntFailsAt,
          Status          |-> IF trailing < required THEN BufferOverflow ELSE backend.status,
          OutputValueSize |-> required ]

\* one iteration of the loop of PerformQuery on the object, as the attempt-th call
QueryIteration(info, backend, attempt) ==
    LET answer   == BackendAnswer(backend, attempt, info.trailing)
        answered == [ info EXCEPT !.Status = answer.Status,
                                  !.OutputValueSize = answer.OutputValueSize ]
    IN  IF answer.failed THEN [ outcome |-> "threw", info |-> info ]
        ELSE IF answered.Status = BufferOverflow
        THEN [ outcome |-> "running", info |-> Resize(answered, answered.OutputValueSize) ]
        ELSE [ outcome |-> "returned", info |-> answered ]

RECURSIVE ProcessAllRuntimeFilesNewerFirst(_, _, _)
ProcessAllRuntimeFilesNewerFirst(device, keys, index) ==
    IF index > Len(RuntimeFileKeys) THEN device
    ELSE LET at == << 2, 1, 4, 3 >>[index]
         IN  ProcessAllRuntimeFilesNewerFirst(
                 ProcessRuntimeFiles(device, keys[at], RuntimeFileKeys[at].isWow64),
                 keys, index + 1)

\* the four ProcessRuntimeFiles calls of FillDriverDetails, in their order
RECURSIVE ProcessAllRuntimeFiles(_, _, _)
ProcessAllRuntimeFiles(device, keys, index) ==
    IF index > Len(RuntimeFileKeys) THEN device
    ELSE ProcessAllRuntimeFiles(
             ProcessRuntimeFiles(device, keys[index], RuntimeFileKeys[index].isWow64),
             keys, index + 1)

InsideContainerNever(path) == FALSE

\* "Determine whether we're running on the host or inside a container": the driver store
\* path holds HostDriverStore
InsideContainer(path) == \E i \in 1..Len(path) : path[i] = HostDriverStore

(***************************************************************************)
(* RegistryQuery::FillDriverDetails.  reg is the platform's answer for the *)
(* device's adapter: openFails (D3DKMTOpenAdapterFromLuid fails), query    *)
(* (the driver store path query) and keys (the four sub-keys' answers).    *)
(* keysRead is the number of sub-keys the call went on to read.            *)
(***************************************************************************)
FillDriverDetails(device, reg) ==
    LET queried  == PerformQuery(reg.query, 1)
        path     == queried.OutputString
        expanded == IF path # << >> /\ Head(path) = SystemRootPrefix
                    THEN <<SystemRoot>> \o Tail(path) ELSE path
        withPath == [ device EXCEPT !.DriverStorePath = expanded ]
    IN  IF reg.openFails
        THEN [ threw |-> DeviceDiscoveryError, device |-> device, keysRead |-> 0,
               message |-> "D3DKMTOpenAdapterFromLuid failed to open adapter" ]
        ELSE IF queried.threw # NoThrow
        THEN [ threw |-> DeviceDiscoveryError, device |-> device, keysRead |-> 0,
               message |-> "D3DKMTQueryAdapterInfo failed" ]
        ELSE IF InsideContainer(expanded)
        THEN [ threw |-> NoThrow, device |-> withPath, keysRead |-> 0, message |-> "" ]
        ELSE [ threw |-> NoThrow, message |-> "", keysRead |-> Len(RuntimeFileKeys),
               device |-> ProcessAllRuntimeFiles(withPath, reg.keys, 1) ]

\* the loop of DiscoverDevices over this->devices; it stops at the first device that throws
RECURSIVE FillAllDriverDetails(_, _, _)
FillAllDriverDetails(list, index, registry) ==
    IF index > Len(list)
    THEN [ threw |-> NoThrow, message |-> "", devices |-> list ]
    ELSE LET filled == FillDriverDetails(list[index], registry[list[index].DeviceAdapter.InstanceLuid])
         IN  IF filled.threw # NoThrow
             THEN [ threw |-> filled.threw, message |-> filled.message, devices |-> list ]
             ELSE FillAllDriverDetails([ list EXCEPT ![index] = filled.device ], index + 1, registry)

-----------------------------------------------------------------------------
(* DeviceDiscoveryImp: the session object *)

\* DeviceDiscoveryImp::HaveDevices
HaveDevices(s) == s.enumeration # NullPtr /\ s.wmi # NullPtr

\* RETURN_ERROR and RETURN_SUCCESS: set the last error and return
ReturnError(s, sentinel, message) ==
    [ session |-> [ s EXCEPT !.lastError = message ], outcome |-> "returned", ret |-> sentinel ]

ReturnSuccessKeepError(s, value) ==
    [ session |-> s, outcome |-> "returned", ret |-> value ]

ReturnSuccess(s, value) ==
    [ session |-> [ s EXCEPT !.lastError = "" ], outcome |-> "returned", ret |-> value ]

\* an exception no handler of the operation catches leaves the call as it is thrown
Escapes(s, type) == [ session |-> s, outcome |-> "escaped", ret |-> type ]

\* a null pointer dereference
Crashes(s) == [ session |-> s, outcome |-> "crashed", ret |-> 0 ]

\* a C string returned to the caller, and the null pointer returned instead of one
CString(str) == [ null |-> FALSE, str |-> str ]
NullString == [ null |-> TRUE, str |-> "" ]

(***************************************************************************)
(* DeviceDiscoveryImp::DiscoverDevices, with the value the exported        *)
(* DeviceDiscovery_DiscoverDevices returns for it (0 or -1).  answer is    *)
(* what the platform does during the call: factoryFails and wmiFails (the  *)
(* helper objects' constructors), enumFault, pnp and registry.             *)
(***************************************************************************)
DiscoverDevices(s, population, filter, includeIntegrated, includeDetachable, answer) ==
    LET create     == ~HaveDevices(s)
        s1         == IF create /\ ~answer.factoryFails
                      THEN [ s EXCEPT !.enumeration = <<NewAdapterEnumeration>> ] ELSE s
        s2         == IF create THEN [ s1 EXCEPT !.wmi = <<NewWmiQuery>> ] ELSE s1
        enumerated == EnumerateAdaptersOn(s2.enumeration[1], population, filter,
                                          includeIntegrated, includeDetachable, answer.enumFault)
        s3         == [ s2 EXCEPT !.enumeration =
                          << [ adapterLists   |-> enumerated.adapterLists,
                               uniqueAdapters |-> enumerated.uniqueAdapters ] >> ]
        matched    == GetDevicesForAdapters(enumerated.uniqueAdapters, answer.pnp)
        s4         == [ s3 EXCEPT !.devices = matched.devices ]
        filled     == FillAllDriverDetails(matched.devices, 1, answer.registry)
        s5         == [ s4 EXCEPT !.devices = filled.devices ]
    IN  IF create /\ answer.factoryFails
        THEN ReturnError(s, -1, "DXCoreCreateAdapterFactory failed")
        ELSE IF create /\ answer.wmiFails
        THEN ReturnError(s1, -1, "failed to connect to the WMI service")
        ELSE IF enumerated.threw
        THEN ReturnError(s3, -1, enumerated.message)
        ELSE IF matched.threw = DeviceDiscoveryError
        THEN ReturnError(s3, -1, matched.message)
        ELSE IF matched.threw # NoThrow
        THEN Escapes(s3, matched.threw)
        ELSE IF filled.threw # NoThrow
        THEN ReturnError(s5, -1, filled.message)
        ELSE ReturnSuccess(s5, 0)

(***************************************************************************)
(* AdapterEnumeration::IsStale: the outcomes it can have.  Calling IsStale *)
(* through a null list handle is a null pointer dereference; a build may   *)
(* crash there or read either answer.                                      *)
(***************************************************************************)
RECURSIVE StaleFrom(_, _)
StaleFrom(lists, index) ==
    IF index > Len(lists) THEN { [ crashed |-> FALSE, stale |-> FALSE ] }
    ELSE IF lists[index].null
    THEN { [ crashed |-> TRUE, stale |-> FALSE ], [ crashed |-> FALSE, stale |-> TRUE ] }
         \cup StaleFrom(lists, index + 1)
    ELSE IF lists[index].stale THEN { [ crashed |-> FALSE, stale |-> TRUE ] }
    ELSE StaleFrom(lists, index + 1)

IsStale(enum) ==
    IF enum.adapterLists = << >> THEN { [ crashed |-> FALSE, stale |-> TRUE ] }
    ELSE StaleFrom(enum.adapterLists, 1)

\* DeviceDiscoveryImp::IsRefreshRequired: its possible results, as the int the export returns
IsRefreshRequired(s) ==
    IF HaveDevices(s)
    THEN { IF r.crashed THEN Crashes(s)
           ELSE [ session |-> s, outcome |-> "returned", ret |-> IF r.stale THEN 1 ELSE 0 ] :
           r \in IsStale(s.enumeration[1]) }
    ELSE { [ session |-> s, outcome |-> "returned", ret |-> 1 ] }

\* DeviceDiscoveryImp::GetNumDevices
GetNumDevices(s) ==
    IF ~HaveDevices(s)
    THEN ReturnError(s, -1, "attempted to retrieve device count before performing device discovery")
    ELSE ReturnSuccess(s, Len(s.devices))

(***************************************************************************)
(* DeviceDiscoveryImp::ValidateRequestedDevice: the message of the error   *)
(* it throws, "" when it returns.  device is the 0-based index.            *)
(***************************************************************************)
ValidateRequestedDevice(s, device) ==
    IF ~HaveDevices(s)
    THEN "attempted to retrieve device details before performing device discovery"
    ELSE IF device >= GetNumDevices(s).ret
    THEN "requested device index is invalid: " \o ToString(device)
    ELSE ""

\* the per-device accessors: the field each returns and the sentinel of its return type
DeviceFields ==
    { "AdapterLUID", "ID", "Description", "DriverRegistryKey", "DriverStorePath",
      "LocationPath", "Vendor", "NumRuntimeFiles", "NumRuntimeFilesWow64",
      "IsIntegrated", "IsDetachable", "SupportsDisplay", "SupportsCompute" }

IntFields ==
    { "AdapterLUID", "NumRuntimeFiles", "NumRuntimeFilesWow64",
      "IsIntegrated", "IsDetachable", "SupportsDisplay", "SupportsCompute" }

BoolToInt(b) == IF b THEN 1 ELSE 0

DeviceFieldValue(d, field) ==
    CASE field = "AdapterLUID" -> d.DeviceAdapter.InstanceLuid
      [] field = "ID" -> CString(d.ID)
      [] field = "Description" -> CString(d.Description)
      [] field = "DriverRegistryKey" -> CString(d.DriverRegistryKey)
      [] field = "DriverStorePath" -> CString(d.DriverStorePath)
      [] field = "LocationPath" -> CString(d.LocationPath)
      [] field = "Vendor" -> CString(d.Vendor)
      [] field = "NumRuntimeFiles" -> Len(d.RuntimeFiles)
      [] field = "NumRuntimeFilesWow64" -> Len(d.RuntimeFilesWow64)
      [] field = "IsIntegrated" -> BoolToInt(d.DeviceAdapter.IsIntegrated)
      [] field = "IsDetachable" -> BoolToInt(d.DeviceAdapter.IsDetachable)
      [] field = "SupportsDisplay" -> BoolToInt(d.DeviceAdapter.SupportsDisplay)
      [] field = "SupportsCompute" -> BoolToInt(d.DeviceAdapter.SupportsCompute)

GetDeviceFieldSilent(s, field, device) ==
    IF ValidateRequestedDevice(s, device) # ""
    THEN [ session |-> s, outcome |-> "returned",
           ret |-> IF field \in IntFields THEN -1 ELSE NullString ]
    ELSE ReturnSuccess(s, DeviceFieldValue(s.devices[device + 1], field))

\* GetDeviceAdapterLUID ... DoesDeviceSupportCompute: VERIFY_DEVICE, then RETURN_SUCCESS
GetDeviceField(s, field, device) ==
    LET invalid == ValidateRequestedDevice(s, device)
    IN  IF invalid # ""
        THEN ReturnError(s, IF field \in IntFields THEN -1 ELSE NullString, invalid)
        ELSE ReturnSuccess(s, DeviceFieldValue(s.devices[device + 1], field))

FileFields == { "Source", "Destination" }

\* GetRuntimeFileSource, GetRuntimeFileDestination and their Wow64 variants:
\* VERIFY_DEVICE, VERIFY_FILE, then RETURN_SUCCESS
GetRuntimeFileField(s, isWow64, field, device, file) ==
    LET invalid == ValidateRequestedDevice(s, device)
        files   == IF isWow64 THEN s.devices[device + 1].RuntimeFilesWow64
                   ELSE s.devices[device + 1].RuntimeFiles
    IN  IF invalid # ""
        THEN ReturnError(s, NullString, invalid)
        ELSE IF file >= Len(files)
        THEN ReturnError(s, NullString,
                         "requested runtime file index is invalid: " \o ToString(file))
        ELSE ReturnSuccess(s, CString(IF field = "Source" THEN files[file + 1].SourcePath
                                      ELSE files[file + 1].DestinationFilename))

-----------------------------------------------------------------------------
(* Session values shared by the specifications *)

NoCall == [ op |-> "none", args |-> << >> ]

SessionInit ==
    /\ wmi = NullPtr
    /\ devices = << >>
    /\ lastError = ""
    /\ call = NoCall
    /\ outcome = "none"
    /\ ret = 0
    /\ succeeded = FALSE

-----------------------------------------------------------------------------
(***************************************************************************)
(* Spec: one session.  The caller invokes the exported operations in any   *)
(* order; the platform answers each DiscoverDevices call from the sets     *)
(* below, and may change its adapter topology between calls, which makes   *)
(* the adapter lists handed out before stale.                              *)
(***************************************************************************)

\* device and file indices passed to the accessors are 0..MaxIndex
MaxIndex == 1

FullAttributes == {D3D11_GRAPHICS, D3D12_GRAPHICS, D3D12_CORE_COMPUTE}

\* the topologies of the session: one discrete adapter; an integrated adapter beside a
\* compute-only one
SessionPopulations ==
    { << DXCoreAdapter(1, TRUE, FALSE, FALSE, FullAttributes) >>,
      << DXCoreAdapter(1, TRUE, TRUE, FALSE, FullAttributes),
         DXCoreAdapter(2, TRUE, FALSE, FALSE, {D3D12_CORE_COMPUTE}) >> }

\* the requests of the session
SessionRequests ==
    { <<AllDevices, TRUE, TRUE>>, <<ComputeOnly, FALSE, TRUE>> }

\* the adapter LUID of a PnP entity, in each encoding the WMI service may use
LuidEncodings == { "VT_I8", "VT_BSTR", "unparsable", "VT_EMPTY" }

EncodeLuid(luid, encoding) ==
    CASE encoding = "VT_I8" -> VtI8(luid)
      [] encoding = "VT_BSTR" -> VtBstr(<<ToString(luid)>>)
      [] encoding = "unparsable" -> VtBstr(<<"x">>)
      [] encoding = "VT_EMPTY" -> VtEmpty

\* the Win32_PnPEntity of an adapter
PnpEntity(adapter, encoding) ==
    [ DeviceID      |-> "PCI\\" \o adapter.HardwareID \o "\\" \o ToString(adapter.InstanceLuid),
      HardwareID    |-> adapter.HardwareID,
      Description   |-> "Display adapter " \o ToString(adapter.InstanceLuid),
      Manufacturer  |-> adapter.HardwareID,
      Driver        |-> VtBstr("{4d36e968}\\000" \o ToString(adapter.InstanceLuid)),
      LocationPaths |-> VtBstrArray(<<"PCIROOT(0)#PCI(0" \o ToString(adapter.InstanceLuid) \o "00)">>),
      AdapterLuid   |-> EncodeLuid(adapter.InstanceLuid, encoding),
      methodFails   |-> FALSE ]

\* one entity per adapter of the population; the encoding is that of the last entity, the
\* others carry a VT_I8
PnpEntities(population, encoding) ==
    [ i \in 1..Len(population) |->
        PnpEntity(population[i], IF i = Len(population) THEN encoding ELSE "VT_I8") ]

PnpAnswer(population, encoding, execFails, nextFailsAt) ==
    [ entities    |-> PnpEntities(population, encoding),
      execFails   |-> execFails,
      nextFailsAt |-> nextFailsAt ]

\* the driver store of a device on the host, with its four runtime-file sub-keys
HostPath == <<SystemRootPrefix, "System32", "DriverStore", "FileRepository", "nv.inf_amd64">>
ContainerPath == <<"C:", "Windows", "System32", HostDriverStore, "FileRepository", "nv.inf_amd64">>

MultiSz(name, strings) == [ name |-> name, type |-> "REG_MULTI_SZ", strings |-> strings ]

KeyAnswer(values, openFails, enumFailsAt) ==
    [ values |-> values, openFails |-> openFails, enumFailsAt |-> enumFailsAt ]

\* registry strings: "nvldumdx\driver.dll", "nv\other.dll", "driver.dll", "nv\d32.dll"
ExampleSource ==
    << "n", "v", "l", "d", "u", "m", "d", "x", "\\", "d", "r", "i", "v", "e", "r", ".", "d", "l", "l" >>
OtherSource == << "n", "v", "\\", "o", "t", "h", "e", "r", ".", "d", "l", "l" >>
DriverDll == << "d", "r", "i", "v", "e", "r", ".", "d", "l", "l" >>
Wow64Source == << "n", "v", "\\", "d", "3", "2", ".", "d", "l", "l" >>

SessionKeys ==
    << KeyAnswer(<< MultiSz(1, << ExampleSource >>),
                    MultiSz(2, << OtherSource, DriverDll >>) >>, FALSE, 0),
       KeyAnswer(<< >>, TRUE, 0),
       KeyAnswer(<< MultiSz(1, << Wow64Source >>) >>, FALSE, 0),
       KeyAnswer(<< MultiSz(1, << OtherSource >>) >>, FALSE, 1) >>

RegistryVariants == { "host", "container", "openFails", "queryFails", "statusFails" }

\* the answer to the driver store path query; a query that ends with status FAIL leaves
\* the zeroed output buffer
QueryAnswer(variant) ==
    [ ntFailsAt    |-> IF variant = "queryFails" THEN 1 ELSE 0,
      overflows    |-> 1,
      status       |-> IF variant = "statusFails" THEN "FAIL" ELSE "SUCCESS",
      OutputString |-> CASE variant = "container" -> ContainerPath
                         [] variant = "statusFails" -> << >>
                         [] OTHER -> HostPath ]

RegistryAnswer(variant) ==
    [ openFails |-> variant = "openFails",
      query     |-> QueryAnswer(variant),
      keys      |-> SessionKeys ]

\* the registry answers the variant for the adapter with LUID at, and as a host elsewhere
Registry(variant, at) ==
    [ luid \in Luids |-> RegistryAnswer(IF luid = at THEN variant ELSE "host") ]

Answer(factoryFails, wmiFails, enumFault, pnp, registry) ==
    [ factoryFails |-> factoryFails, wmiFails |-> wmiFails, enumFault |-> enumFault,
      pnp |-> pnp, registry |-> registry ]

\* what the platform may do during one DiscoverDevices call over the population
SessionAnswers(population) ==
    LET goodPnp == PnpAnswer(population, "VT_I8", FALSE, 0)
        goodReg == Registry("host", 1)
    IN  { Answer(TRUE, FALSE, NoFault, goodPnp, goodReg),
          Answer(FALSE, TRUE, NoFault, goodPnp, goodReg) }
        \cup { Answer(FALSE, FALSE, [ kind |-> k, at |-> 1 ], goodPnp, goodReg) :
                 k \in {"CreateAdapterList", "GetAdapter"} }
        \cup { Answer(FALSE, FALSE, NoFault, PnpAnswer(population, e, FALSE, 0), goodReg) :
                 e \in LuidEncodings }
        \cup { Answer(FALSE, FALSE, NoFault, PnpAnswer(population, "VT_I8", TRUE, 0), goodReg),
               Answer(FALSE, FALSE, NoFault, PnpAnswer(population, "VT_I8", FALSE, 2), goodReg) }
        \cup { Answer(FALSE, FALSE, NoFault, goodPnp, Registry(v, at)) :
                 v \in RegistryVariants, at \in Luids }

Session == [ enumeration |-> enumeration, wmi |-> wmi, devices |-> devices,
             lastError |-> lastError ]

\* the session after an operation, with what the caller observes of it
Becomes(result, op, args) ==
    /\ enumeration' = result.session.enumeration
    /\ wmi' = result.session.wmi
    /\ devices' = result.session.devices
    /\ lastError' = result.session.lastError
    /\ call' = [ op |-> op, args |-> args ]
    /\ outcome' = result.outcome
    /\ ret' = result.ret

\* a crashed process performs no further operation
Alive == outcome # "crashed"

Init ==
    /\ platform \in SessionPopulations
    /\ enumeration = NullPtr
    /\ SessionInit

Discover ==
    /\ Alive
    /\ \E request \in SessionRequests, answer \in SessionAnswers(platform) :
         LET result == DiscoverDevices(Session, platform, request[1], request[2], request[3], answer)
         IN  /\ Becomes(result, "DiscoverDevices", << >>)
             /\ succeeded' = (succeeded \/ (result.outcome = "returned" /\ result.ret = 0))
    /\ UNCHANGED platform

RefreshRequired ==
    /\ Alive
    /\ \E result \in IsRefreshRequired(Session) : Becomes(result, "IsRefreshRequired", << >>)
    /\ UNCHANGED <<platform, succeeded>>

NumDevices ==
    /\ Alive
    /\ Becomes(GetNumDevices(Session), "GetNumDevices", << >>)
    /\ UNCHANGED <<platform, succeeded>>

DeviceField ==
    /\ Alive
    /\ \E field \in DeviceFields, device \in 0..MaxIndex :
         Becomes(GetDeviceField(Session, field, device), "GetDeviceField", <<field, device>>)
    /\ UNCHANGED <<platform, succeeded>>

RuntimeFileField ==
    /\ Alive
    /\ \E isWow64 \in BOOLEAN, field \in FileFields, device \in 0..MaxIndex, file \in 0..MaxIndex :
         Becomes(GetRuntimeFileField(Session, isWow64, field, device, file),
                 "GetRuntimeFileField", <<isWow64, field, device, file>>)
    /\ UNCHANGED <<platform, succeeded>>

\* the adapter topology changes: the platform marks the lists it handed out stale
MarkStale(pointer) ==
    IF pointer = NullPtr THEN pointer
    ELSE << [ pointer[1] EXCEPT !.adapterLists =
                [ i \in 1..Len(pointer[1].adapterLists) |->
                    IF pointer[1].adapterLists[i].null THEN pointer[1].adapterLists[i]
                    ELSE [ pointer[1].adapterLists[i] EXCEPT !.stale = TRUE ] ] ] >>

TopologyChange ==
    /\ Alive
    /\ \E population \in SessionPopulations \ {platform} : platform' = population
    /\ enumeration' = MarkStale(enumeration)
    /\ UNCHANGED <<wmi, devices, lastError, call, outcome, ret, succeeded>>

Next ==
    \/ Discover
    \/ RefreshRequired
    \/ NumDevices
    \/ DeviceField
    \/ RuntimeFileField
    \/ TopologyChange

Spec == Init /\ [][Next]_vars

-----------------------------------------------------------------------------
(***************************************************************************)
(* SpecEnum: one EnumerateAdapters call on a newly constructed             *)
(* AdapterEnumeration, for every platform population, filter and pair of   *)
(* include flags.                                                          *)
(***************************************************************************)

\* the platform of the worked example: A (display and compute, integrated), B (display and
\* compute, discrete), C (display only, discrete)
ExamplePopulation ==
    << DXCoreAdapter(1, TRUE, TRUE, FALSE, FullAttributes),
       DXCoreAdapter(2, TRUE, FALSE, FALSE, FullAttributes),
       DXCoreAdapter(3, TRUE, FALSE, FALSE, {D3D11_GRAPHICS}) >>

InitEnum ==
    /\ platform \in Populations \cup {ExamplePopulation}
    /\ enumeration = <<NewAdapterEnumeration>>
    /\ SessionInit

EnumerateCall ==
    /\ call = NoCall
    /\ \E filter \in DeviceFilter, includeIntegrated \in BOOLEAN, includeDetachable \in BOOLEAN :
         LET r == EnumerateAdapters(platform, filter, includeIntegrated, includeDetachable, NoFault)
         IN  /\ enumeration' = << [ adapterLists   |-> r.adapterLists,
                                    uniqueAdapters |-> r.uniqueAdapters ] >>
             /\ call' = [ op |-> "EnumerateAdapters",
                          args |-> <<filter, includeIntegrated, includeDetachable>> ]
             /\ outcome' = "returned"
    /\ UNCHANGED <<platform, wmi, devices, lastError, ret, succeeded>>

NextEnum == EnumerateCall

SpecEnum == InitEnum /\ [][NextEnum]_vars

-----------------------------------------------------------------------------
(***************************************************************************)
(* SpecCorrelate: one GetDevicesForAdapters call, for every adapter set    *)
(* enumerated from a platform of display adapters and every sequence of    *)
(* at most MaxRecords PnP entities the WMI service may return.  An entity  *)
(* reports the LUID of an adapter of the platform or of none, as a VT_I8   *)
(* or as a string; two entities may report the same LUID.                  *)
(***************************************************************************)

MaxRecords == 2

CorrelateAdapters ==
    { DXCoreAdapter(l, TRUE, i, FALSE, FullAttributes) : l \in Luids, i \in BOOLEAN }

CorrelatePopulations == SeqsUpTo(CorrelateAdapters, MaxAdapters)

\* the entities of display adapters; LUID MaxLuid + 1 belongs to no enumerated adapter
PnpRecords ==
    { PnpEntity(DXCoreAdapter(l, TRUE, i, FALSE, FullAttributes), e) :
        l \in 1..(MaxLuid + 1), i \in BOOLEAN, e \in {"VT_I8", "VT_BSTR"} }

\* the entities in the order the enumerator returns them, each with its own device id
Present(records) ==
    [ i \in 1..Len(records) |-> [ records[i] EXCEPT !.DeviceID = @ \o "&" \o ToString(i) ] ]

InitCorrelate ==
    /\ platform \in CorrelatePopulations
    /\ enumeration = << [ adapterLists   |-> EnumerateAdapters(platform, AllDevices, TRUE, TRUE,
                                                                NoFault).adapterLists,
                          uniqueAdapters |-> EnumerateAdapters(platform, AllDevices, TRUE, TRUE,
                                                                NoFault).uniqueAdapters ] >>
    /\ SessionInit

CorrelateCall ==
    /\ call = NoCall
    /\ \E records \in SeqsUpTo(PnpRecords, MaxRecords) :
         LET pnp == [ entities |-> Present(records), execFails |-> FALSE, nextFailsAt |-> 0 ]
             r   == GetDevicesForAdapters(GetUniqueAdapters(enumeration[1]), pnp)
         IN  /\ devices' = r.devices
             /\ call' = [ op |-> "GetDevicesForAdapters", args |-> <<pnp>> ]
             /\ outcome' = IF r.threw = NoThrow THEN "returned" ELSE "threw"
    /\ UNCHANGED <<platform, enumeration, wmi, lastError, ret, succeeded>>

NextCorrelate == CorrelateCall

SpecCorrelate == InitCorrelate /\ [][NextCorrelate]_vars

-----------------------------------------------------------------------------
(***************************************************************************)
(* SpecRuntimeFile: one construction of a RuntimeFile, for every source    *)
(* path of at most MaxPath characters (and the source of the example) and  *)
(* an empty or a given destination filename.                               *)
(***************************************************************************)

MaxPath == 3

PathChars == { "a", ".", ":", "\\", "/" }

SourcePaths == SeqsUpTo(PathChars, MaxPath) \cup { ExampleSource, OtherSource }

DestinationFilenames == { << >>, DriverDll }

InitRuntimeFile ==
    /\ platform = << >>
    /\ enumeration = NullPtr
    /\ SessionInit

Construct ==
    /\ call = NoCall
    /\ \E source \in SourcePaths, destination \in DestinationFilenames :
         /\ ret' = RuntimeFile(source, destination)
         /\ call' = [ op |-> "RuntimeFile", args |-> <<source, destination>> ]
         /\ outcome' = "returned"
    /\ UNCHANGED <<platform, enumeration, wmi, devices, lastError, succeeded>>

NextRuntimeFile == Construct

SpecRuntimeFile == InitRuntimeFile /\ [][NextRuntimeFile]_vars

-----------------------------------------------------------------------------
(***************************************************************************)
(* SpecResolve: one FillDriverDetails call on a device as                  *)
(* GetDevicesForAdapters produced it, for every answer of the platform:    *)
(* the adapter handle, the driver store path query, and the values of the  *)
(* four runtime-file sub-keys (at most MaxValues values in a key of the    *)
(* System32 list, in either order of their names).                         *)
(***************************************************************************)

MaxValues == 2

\* the strings of a REG_MULTI_SZ value: a source, a source and a destination, or none
ValueStrings == { << ExampleSource >>, << OtherSource, DriverDll >>, << OtherSource >>, << >> }

\* the values of a key as RegEnumValueW returns them: names ascending or descending
KeyValues(n) ==
    { [ i \in 1..n |-> MultiSz(IF ascending THEN i ELSE n + 1 - i, strings[i]) ] :
        strings \in [ 1..n -> ValueStrings ], ascending \in BOOLEAN }

\* a key that opens and enumerates
ReadableKeys == { KeyAnswer(values, FALSE, 0) : values \in UNION { KeyValues(n) : n \in 0..MaxValues } }

TwoValues == << MultiSz(1, << ExampleSource >>), MultiSz(2, << OtherSource >>) >>

\* a key that fails: it does not open, RegEnumValueW fails at the first, second or third
\* call, or its second value is not a REG_MULTI_SZ
FailingKeys ==
    { KeyAnswer(TwoValues, TRUE, 0) }
    \cup { KeyAnswer(TwoValues, FALSE, k) : k \in 1..3 }
    \cup { KeyAnswer(<< TwoValues[1], [ TwoValues[2] EXCEPT !.type = "REG_SZ" ] >>, FALSE, 0) }

\* the answers for the two Wow64 sub-keys
Wow64Keys ==
    { << KeyAnswer(<< MultiSz(1, << Wow64Source >>) >>, FALSE, 0), k >> :
        k \in { KeyAnswer(<< MultiSz(1, << OtherSource >>) >>, FALSE, 0),
                KeyAnswer(<< MultiSz(1, << OtherSource >>) >>, TRUE, 0) } }
    \cup { << KeyAnswer(<< MultiSz(1, << Wow64Source, DriverDll >>) >>, FALSE, 0),
               KeyAnswer(<< MultiSz(1, << OtherSource, DriverDll >>) >>, FALSE, 0) >> }
    \cup { << k, KeyAnswer(<< MultiSz(1, << Wow64Source, DriverDll >>) >>, FALSE, 0) >> :
             k \in { KeyAnswer(<< MultiSz(1, << ExampleSource >>) >>, FALSE, 1),
                     KeyAnswer(<< MultiSz(1, << ExampleSource >>) >>, FALSE, 2),
                     KeyAnswer(<< [ MultiSz(1, << ExampleSource >>) EXCEPT !.type = "REG_SZ" ] >>,
                               FALSE, 0) } }

ResolveAnswers ==
    { [ openFails |-> FALSE, query |-> QueryAnswer("host"), keys |-> << k1, k2 >> \o wow ] :
        k1 \in ReadableKeys \cup FailingKeys, k2 \in ReadableKeys \cup FailingKeys,
        wow \in Wow64Keys }
    \cup { [ openFails |-> v = "openFails", query |-> QueryAnswer(v), keys |-> << k, k >> \o wow ] :
             v \in RegistryVariants \ {"host"},
             k \in { KeyAnswer(TwoValues, FALSE, 0) } \cup FailingKeys, wow \in Wow64Keys }

\* the device of the platform's one adapter, as GetDevicesForAdapters produces it
ResolveDevice ==
    LET adapter == DXCoreAdapter(1, TRUE, FALSE, FALSE, FullAttributes)
    IN  [ ExtractDeviceDetails(PnpEntity(adapter, "VT_I8")).details EXCEPT
            !.DeviceAdapter = ExtractAdapterDetails(adapter) ]

InitResolve ==
    /\ platform = << DXCoreAdapter(1, TRUE, FALSE, FALSE, FullAttributes) >>
    /\ enumeration = NullPtr
    /\ wmi = NullPtr
    /\ devices = << ResolveDevice >>
    /\ lastError = ""
    /\ call = NoCall
    /\ outcome = "none"
    /\ ret = 0
    /\ succeeded = FALSE

Resolve ==
    /\ call = NoCall
    /\ \E reg \in ResolveAnswers :
         LET r == FillDriverDetails(devices[1], reg)
         IN  /\ devices' = << r.device >>
             /\ ret' = r.keysRead
             /\ call' = [ op |-> "FillDriverDetails", args |-> <<reg>> ]
             /\ outcome' = IF r.threw = NoThrow THEN "returned" ELSE "threw"
    /\ UNCHANGED <<platform, enumeration, wmi, lastError, succeeded>>

NextResolve == Resolve

SpecResolve == InitResolve /\ [][NextResolve]_vars

-----------------------------------------------------------------------------
(***************************************************************************)
(* SpecRelease: one ExtractDeviceDetails call on a Win32_PnPEntity, for    *)
(* every combination of the values its three device properties may have    *)
(* and a failing or succeeding GetDeviceProperties invocation.  ret is     *)
(* what the call still holds when it is left.                              *)
(***************************************************************************)

ReleaseEntities ==
    { [ PnpEntity(DXCoreAdapter(1, TRUE, FALSE, FALSE, FullAttributes), "VT_I8") EXCEPT
          !.Driver = driver, !.LocationPaths = paths, !.AdapterLuid = luid,
          !.methodFails = methodFails ] :
        driver \in { VtBstr("{4d36e968}\\0001"), NoData, VtEmpty },
        paths \in { VtBstrArray(<<"PCIROOT(0)#PCI(0100)">>), NoData, VtEmpty },
        luid \in { VtI8(l) : l \in Luids }
                 \cup { VtBstr(<<"1">>), VtBstr(<<"x">>), VtEmpty, NoData },
        methodFails \in BOOLEAN }

InitRelease ==
    /\ platform = << DXCoreAdapter(1, TRUE, FALSE, FALSE, FullAttributes) >>
    /\ enumeration = NullPtr
    /\ SessionInit

ExtractCall ==
    /\ call = NoCall
    /\ \E entity \in ReleaseEntities :
         /\ ret' = StillHeld(AcquiredByExtract(entity))
         /\ call' = [ op |-> "ExtractDeviceDetails", args |-> <<entity>> ]
         /\ outcome' = IF ExtractDeviceDetails(entity).threw = NoThrow
                       THEN "returned" ELSE "threw"
    /\ UNCHANGED <<platform, enumeration, wmi, devices, lastError, succeeded>>

NextRelease == ExtractCall

SpecRelease == InitRelease /\ [][NextRelease]_vars

-----------------------------------------------------------------------------
(***************************************************************************)
(* SpecPair: two instances made by CreateDeviceDiscoveryInstance, used by  *)
(* one caller or by several in any interleaving of whole operations.  In   *)
(* this specification enumeration, wmi, devices and lastError map each     *)
(* live instance to that member of its DeviceDiscoveryImp object; an       *)
(* exported function reaches the object through the handle it is given.    *)
(***************************************************************************)

Instances == { 1, 2 }

PairPopulation == << DXCoreAdapter(1, TRUE, FALSE, FALSE, FullAttributes) >>

\* what the platform may do during a DiscoverDevices call of either instance: nothing
\* fails, the WMI connection fails, the first adapter list cannot be created, or the
\* adapter of the device cannot be opened
PairAnswers ==
    LET goodPnp == PnpAnswer(PairPopulation, "VT_I8", FALSE, 0)
    IN  { Answer(FALSE, FALSE, NoFault, goodPnp, Registry("host", 1)),
          Answer(FALSE, TRUE, NoFault, goodPnp, Registry("host", 1)),
          Answer(FALSE, FALSE, [ kind |-> "CreateAdapterList", at |-> 1 ], goodPnp,
                 Registry("host", 1)),
          Answer(FALSE, FALSE, NoFault, goodPnp, Registry("openFails", 1)) }

\* the accessors the callers use
PairFields == { "ID", "NumRuntimeFiles" }

\* INSTANCE: the object behind the handle
Object(instance) ==
    [ enumeration |-> enumeration[instance], wmi |-> wmi[instance],
      devices |-> devices[instance], lastError |-> lastError[instance] ]

StoreInAll(members, instance, value) == [ i \in DOMAIN members |-> value ]

\* a write to a member of the object behind the handle
Store(members, instance, value) == [ members EXCEPT ![instance] = value ]

\* the objects after an operation on one of them, with what the caller observes
BecomesOf(instance, result, op, args) ==
    /\ enumeration' = Store(enumeration, instance, result.session.enumeration)
    /\ wmi' = Store(wmi, instance, result.session.wmi)
    /\ devices' = Store(devices, instance, result.session.devices)
    /\ lastError' = Store(lastError, instance, result.session.lastError)
    /\ call' = [ op |-> op, args |-> args, instance |-> instance ]
    /\ outcome' = result.outcome
    /\ ret' = result.ret

\* delete INSTANCE: the object and its members are gone
Deleted(members, instance) == [ i \in DOMAIN members \ {instance} |-> members[i] ]

Live(instance) == Alive /\ instance \in DOMAIN devices

InitPair ==
    /\ platform = PairPopulation
    /\ enumeration = [ i \in Instances |-> NullPtr ]
    /\ wmi = [ i \in Instances |-> NullPtr ]
    /\ devices = [ i \in Instances |-> << >> ]
    /\ lastError = [ i \in Instances |-> "" ]
    /\ call = NoCall
    /\ outcome = "none"
    /\ ret = 0
    /\ succeeded = FALSE

PairDiscover(instance) ==
    /\ Live(instance)
    /\ \E answer \in PairAnswers :
         BecomesOf(instance,
                   DiscoverDevices(Object(instance), platform, AllDevices, TRUE, TRUE, answer),
                   "DiscoverDevices", << >>)
    /\ UNCHANGED <<platform, succeeded>>

PairRefreshRequired(instance) ==
    /\ Live(instance)
    /\ \E result \in IsRefreshRequired(Object(instance)) :
         BecomesOf(instance, result, "IsRefreshRequired", << >>)
    /\ UNCHANGED <<platform, succeeded>>

PairNumDevices(instance) ==
    /\ Live(instance)
    /\ BecomesOf(instance, GetNumDevices(Object(instance)), "GetNumDevices", << >>)
    /\ UNCHANGED <<platform, succeeded>>

PairDeviceField(instance) ==
    /\ Live(instance)
    /\ \E field \in PairFields, device \in 0..MaxIndex :
         BecomesOf(instance, GetDeviceField(Object(instance), field, device),
                   "GetDeviceField", <<field, device>>)
    /\ UNCHANGED <<platform, succeeded>>

PairRuntimeFileField(instance) ==
    /\ Live(instance)
    /\ \E device \in 0..MaxIndex, file \in 0..MaxIndex :
         BecomesOf(instance, GetRuntimeFileField(Object(instance), FALSE, "Source", device, file),
                   "GetRuntimeFileField", <<FALSE, "Source", device, file>>)
    /\ UNCHANGED <<platform, succeeded>>

\* DestroyDeviceDiscoveryInstance
Destroy(instance) ==
    /\ Live(instance)
    /\ enumeration' = Deleted(enumeration, instance)
    /\ wmi' = Deleted(wmi, instance)
    /\ devices' = Deleted(devices, instance)
    /\ lastError' = Deleted(lastError, instance)
    /\ call' = [ op |-> "DestroyDeviceDiscoveryInstance", args |-> << >>, instance |-> instance ]
    /\ outcome' = "returned"
    /\ ret' = 0
    /\ UNCHANGED <<platform, succeeded>>

NextPair ==
    \E instance \in Instances :
        \/ PairDiscover(instance)
        \/ PairRefreshRequired(instance)
        \/ PairNumDevices(instance)
        \/ PairDeviceField(instance)
        \/ PairRuntimeFileField(instance)
        \/ Destroy(instance)

SpecPair == InitPair /\ [][NextPair]_vars

-----------------------------------------------------------------------------
(***************************************************************************)
(* SpecQuery: one PerformQuery call, one loop iteration per step, against  *)
(* every backend with at most two successive size requirements of at most  *)
(* MaxBuffer, and against the greedy one (followed until its requirement   *)
(* exceeds MaxBuffer).  ret is the query object with the log of the        *)
(* requests issued and of the answers received.  The calling thread keeps  *)
(* running, so an enabled iteration is eventually taken.                   *)
(***************************************************************************)

QueryStatuses == { "D3DDDI_QUERYREGISTRY_STATUS_SUCCESS", "D3DDDI_QUERYREGISTRY_STATUS_FAIL" }

Backends ==
    { [ greedy |-> FALSE, need |-> need, ntFailsAt |-> nt, status |-> status ] :
        need \in SeqsUpTo(0..MaxBuffer, 2) \ { << >> }, nt \in 0..3, status \in QueryStatuses }
    \cup { [ greedy |-> TRUE, need |-> << 0 >>, ntFailsAt |-> 0,
             status |-> "D3DDDI_QUERYREGISTRY_STATUS_SUCCESS" ] }

\* the queries the library prepares: the driver store path, and a value of the adapter key
PreparedQueries ==
    { SetFilesystemQuery(NewQueryD3DRegistryInfo, "D3DDDI_QUERYREGISTRY_DRIVERSTOREPATH"),
      SetAdapterKeyQuery(NewQueryD3DRegistryInfo, "UserModeDriverName", 7, TRUE) }

InitQuery ==
    /\ platform = << >>
    /\ enumeration = NullPtr
    /\ wmi = NullPtr
    /\ devices = << >>
    /\ lastError = ""
    /\ call = NoCall
    /\ outcome = "none"
    /\ ret = [ info |-> NewQueryD3DRegistryInfo, issued |-> << >>, answers |-> << >> ]
    /\ succeeded = FALSE

PerformQueryCall ==
    /\ call = NoCall
    /\ \E backend \in Backends, info \in PreparedQueries :
         /\ call' = [ op |-> "PerformQuery", args |-> << backend >> ]
         /\ ret' = [ info |-> info, issued |-> << >>, answers |-> << >> ]
    /\ outcome' = "running"
    /\ UNCHANGED <<platform, enumeration, wmi, devices, lastError, succeeded>>

PerformQueryIteration ==
    /\ call.op = "PerformQuery" /\ outcome = "running"
    /\ ret.info.trailing <= MaxBuffer
    /\ LET attempt == Len(ret.issued) + 1
           step    == QueryIteration(ret.info, call.args[1], attempt)
       IN  /\ ret' = [ info    |-> step.info,
                       issued  |-> Append(ret.issued, RequestOf(ret.info)),
                       answers |-> Append(ret.answers,
                                          BackendAnswer(call.args[1], attempt, ret.info.trailing)) ]
           /\ outcome' = step.outcome
    /\ UNCHANGED <<platform, enumeration, wmi, devices, lastError, call, succeeded>>

NextQuery == PerformQueryCall \/ PerformQueryIteration

SpecQuery == InitQuery /\ [][NextQuery]_vars /\ WF_vars(PerformQueryIteration)

-----------------------------------------------------------------------------
(***************************************************************************)
(* SpecReenumerate: EnumerateAdapters called again and again on one        *)
(* AdapterEnumeration while adapters come and go.  ret is the adapter set  *)
(* the object held before the last call.                                   *)
(***************************************************************************)

ReenumeratedAdapters ==
    { DXCoreAdapter(1, TRUE, TRUE, FALSE, FullAttributes),
      DXCoreAdapter(2, TRUE, FALSE, FALSE, FullAttributes),
      DXCoreAdapter(1, TRUE, FALSE, FALSE, {D3D11_GRAPHICS}) }

ReenumeratedPopulations == SeqsUpTo(ReenumeratedAdapters, MaxAdapters)

\* the calls: every filter with both gates open, one filter with the integrated gate
\* closed, and a call during which GetAdapter fails for the first adapter
ReenumerateCalls ==
    { << filter, TRUE, TRUE, NoFault >> : filter \in DeviceFilter }
    \cup { << DisplayAndCompute, FALSE, TRUE, NoFault >>,
           << AllDevices, TRUE, TRUE, [ kind |-> "GetAdapter", at |-> 1 ] >> }

InitReenumerate ==
    /\ platform \in ReenumeratedPopulations
    /\ enumeration = <<NewAdapterEnumeration>>
    /\ wmi = NullPtr
    /\ devices = << >>
    /\ lastError = ""
    /\ call = NoCall
    /\ outcome = "none"
    /\ ret = EmptyMap
    /\ succeeded = FALSE

Reenumerate ==
    /\ \E args \in ReenumerateCalls :
         LET r == EnumerateAdaptersOn(enumeration[1], platform, args[1], args[2], args[3], args[4])
         IN  /\ enumeration' = << [ adapterLists   |-> r.adapterLists,
                                    uniqueAdapters |-> r.uniqueAdapters ] >>
             /\ call' = [ op |-> "EnumerateAdapters", args |-> args ]
             /\ outcome' = IF r.threw THEN "threw" ELSE "returned"
    /\ ret' = enumeration[1].uniqueAdapters
    /\ UNCHANGED <<platform, wmi, devices, lastError, succeeded>>

\* adapters are added or removed: the lists handed out become stale
PopulationChange ==
    /\ \E population \in ReenumeratedPopulations \ {platform} : platform' = population
    /\ enumeration' = MarkStale(enumeration)
    /\ UNCHANGED <<wmi, devices, lastError, call, outcome, ret, succeeded>>

NextReenumerate == Reenumerate \/ PopulationChange

SpecReenumerate == InitReenumerate /\ [][NextReenumerate]_vars

-----------------------------------------------------------------------------
(***************************************************************************)
(* ErrorHandling: the conversion of a platform status into a               *)
(* DeviceDiscoveryError.  A message is the sequence of its characters; the *)
(* fixed text of a message is one element.  A size_t is an integer, and    *)
(* the values of the top of its range are the negative integers (npos,     *)
(* size_t(-1), is -1), so that 0 - 1 is npos as in the code.               *)
(***************************************************************************)

MaxMessage == 3

npos == -1

\* the characters of a platform message: a letter, a carriage return, a line feed
MessageChars == { "a", "\r", "\n" }

\* the message texts of the platform, the empty one included
RECURSIVE MessagesOfLen(_)
MessagesOfLen(n) ==
    IF n = 0 THEN { << >> }
    ELSE { Append(m, c) : m \in MessagesOfLen(n - 1), c \in MessageChars }

Messages == UNION { MessagesOfLen(n) : n \in 0..MaxMessage }

\* a call site of a conversion macro: __WFILE__, __WFUNCTION__, __LINE__
CallSite(file, function, line) == [ file |-> file, function |-> function, line |-> line ]

\* DeviceDiscoveryError(message, file, function, line)
NewDeviceDiscoveryError(message, site) ==
    [ message |-> message, file |-> site.file, function |-> site.function, line |-> site.line ]

\* DeviceDiscoveryError::operator bool
OperatorBool(error) == error.message # << >>

\* std::wstring::find_last_of: the last position (from 0) of a character of the set, or npos
FindLastOf(message, chars) ==
    LET found == { i \in 1..Len(message) : message[i] \in chars }
    IN  IF found = {} THEN npos
        ELSE (CHOOSE i \in found : \A j \in found : j <= i) - 1

\* std::wstring::substr(pos, count) for pos <= size: count is clamped to size - pos
Substr(message, pos, count) ==
    LET rest == Len(message) - pos
        taken == IF count < 0 \/ count > rest THEN rest ELSE count
    IN  SubSeq(message, pos + 1, pos + taken)

HexDigits ==
    << "0", "1", "2", "3", "4", "5", "6", "7", "8", "9", "A", "B", "C", "D", "E", "F" >>

\* fmt "{:0>4X}" of a 16-bit value
Hex4(n) ==
    << HexDigits[((n \div 4096) % 16) + 1], HexDigits[((n \div 256) % 16) + 1],
       HexDigits[((n \div 16) % 16) + 1], HexDigits[(n % 16) + 1] >>

\* fmt "{:0>8X}" of static_cast<uint32_t>(status) for a negative status: the two halves
\* of 2^32 + status
Hex8(status) ==
    Hex4(65535 - (((-status - 1) \div 65536) % 65536))
        \o Hex4(65535 - ((-status - 1) % 65536))

(***************************************************************************)
(* ErrorHandling::ErrorForNtStatus.  text is what FormatMessageW writes    *)
(* for the status from ntdll.dll's message table; its length is the        *)
(* return value, 0 when there is no message.                               *)
(***************************************************************************)
ErrorForNtStatus(status, text, site) ==
    LET length  == Len(text)
        newline == FindLastOf(text, { "\r", "\n" })
        message == IF newline # npos THEN Substr(text, 0, newline - 1) ELSE text
    IN  IF status < 0
        THEN IF length > 0
             THEN NewDeviceDiscoveryError(message, site)
             ELSE NewDeviceDiscoveryError(
                      << "Unable to retrieve error message for NTSTATUS code 0x" >> \o Hex8(status),
                      site)
        ELSE NewDeviceDiscoveryError(<< >>, site)

\* ErrorHandling::ErrorForHresult: winrt::check_hresult throws an hresult_error for a
\* failure HRESULT; text is what err.message() returns
ErrorForHresult(result, text, site) ==
    IF result < 0 THEN NewDeviceDiscoveryError(text, site)
    ELSE NewDeviceDiscoveryError(<< >>, site)

\* ErrorHandling::ErrorForWin32: winrt::check_win32 throws an hresult_error for an error
\* code other than ERROR_SUCCESS; text is what err.message() returns
ErrorForWin32(error, text, site) ==
    IF error # 0 THEN NewDeviceDiscoveryError(text, site)
    ELSE NewDeviceDiscoveryError(<< >>, site)

(***************************************************************************)
(* One conversion of a platform status: CheckNtStatus, CheckHresult or     *)
(* CheckWin32 at a call site, for every status of a small range and every  *)
(* message text of the platform.  ret is the error object and succeeded    *)
(* is what `if (error)` evaluates to.                                      *)
(***************************************************************************)

\* STATUS_SUCCESS, a positive status, STATUS_ACCESS_VIOLATION (0xC0000005) and 0xFFFFFFFF
NtStatuses == { 0, 1, -1073741819, -1 }

\* S_OK, S_FALSE, E_ACCESSDENIED (0x80070005) and 0xFFFFFFFF
Hresults == { 0, 1, -2147024891, -1 }

\* ERROR_SUCCESS, ERROR_INVALID_FUNCTION, ERROR_FILE_NOT_FOUND, ERROR_ACCESS_DENIED
Win32Errors == { 0, 1, 2, 5 }

InitError ==
    /\ platform = << >>
    /\ enumeration = NullPtr
    /\ wmi = NullPtr
    /\ devices = << >>
    /\ lastError = ""
    /\ call = NoCall
    /\ outcome = "none"
    /\ ret = NewDeviceDiscoveryError(<< >>, CallSite("", "", 0))
    /\ succeeded = FALSE

\* auto error = CheckNtStatus(D3DKMTQueryAdapterInfo(&adapterQuery)); if (error) ...
ConvertNtStatus ==
    /\ call = NoCall
    /\ \E status \in NtStatuses, text \in Messages :
         LET error == ErrorForNtStatus(status, text,
                          CallSite("D3DHelpers.cpp", "QueryD3DRegistryInfo::PerformQuery", 49))
         IN  /\ call' = [ op |-> "CheckNtStatus", args |-> << status, text >> ]
             /\ ret' = error
             /\ succeeded' = OperatorBool(error)
    /\ outcome' = "returned"
    /\ UNCHANGED <<platform, enumeration, wmi, devices, lastError>>

\* auto error = CheckHresult(DXCoreCreateAdapterFactory(...)); if (error) ...
ConvertHresult ==
    /\ call = NoCall
    /\ \E result \in Hresults, text \in Messages :
         LET error == ErrorForHresult(result, text,
                          CallSite("AdapterEnumeration.cpp", "AdapterEnumeration::AdapterEnumeration", 10))
         IN  /\ call' = [ op |-> "CheckHresult", args |-> << result, text >> ]
             /\ ret' = error
             /\ succeeded' = OperatorBool(error)
    /\ outcome' = "returned"
    /\ UNCHANGED <<platform, enumeration, wmi, devices, lastError>>

\* auto error = CheckWin32(RegOpenKeyExW(...)); if (error) ...
ConvertWin32 ==
    /\ call = NoCall
    /\ \E error \in Win32Errors, text \in Messages :
         LET converted == ErrorForWin32(error, text,
                              CallSite("RegistryQuery.cpp", "RegistryQuery::OpenKeyFromString", 104))
         IN  /\ call' = [ op |-> "CheckWin32", args |-> << error, text >> ]
             /\ ret' = converted
             /\ succeeded' = OperatorBool(converted)
    /\ outcome' = "returned"
    /\ UNCHANGED <<platform, enumeration, wmi, devices, lastError>>

NextError == ConvertNtStatus \/ ConvertHresult \/ ConvertWin32

SpecError == InitError /\ [][NextError]_vars

-----------------------------------------------------------------------------
(***************************************************************************)
(* RegistryQuery::ExtractMultiStringValue on the memory at data.  The      *)
(* memory is the sequence of its wchar_t characters, the character at      *)
(* offset o being memory[o + 1]: the caller's buffer followed by what lies *)
(* beyond it.  The result carries the offsets the call read.               *)
(***************************************************************************)

MaxData == 3

SizeofWchar == 2

NUL == "NUL"

\* std::wstring(const wchar_t*): the characters from the pointer up to the first NUL
WString(memory, offset) ==
    LET end == CHOOSE i \in offset..(Len(memory) - 1) :
                   /\ memory[i + 1] = NUL
                   /\ \A j \in offset..(i - 1) : memory[j + 1] # NUL
    IN  [ string |-> SubSeq(memory, offset + 1, end), read |-> offset..end ]

\* the loop of ExtractMultiStringValue
RECURSIVE ExtractLoop(_, _, _, _, _)
ExtractLoop(strings, read, memory, offset, upperBound) ==
    IF ~(offset < upperBound) THEN [ strings |-> strings, read |-> read ]
    ELSE LET nextString == WString(memory, offset)
         IN  IF Len(nextString.string) = 0
             THEN [ strings |-> strings, read |-> read \cup nextString.read ]
             ELSE ExtractLoop(Append(strings, nextString.string), read \cup nextString.read,
                              memory, offset + Len(nextString.string) + 1, upperBound)

ExtractMultiStringValue(memory, numBytes) ==
    ExtractLoop(<< >>, {}, memory, 0, numBytes \div SizeofWchar)

(***************************************************************************)
(* One ExtractMultiStringValue call on a buffer of up to MaxData           *)
(* characters with a byte count within the buffer.  A read beyond the      *)
(* buffer is undefined: it finds what the memory holds there, or the call  *)
(* crashes.                                                                *)
(***************************************************************************)

DataChars == { "a", "b", NUL }

RECURSIVE BuffersOfLen(_)
BuffersOfLen(n) ==
    IF n = 0 THEN { << >> }
    ELSE { Append(b, c) : b \in BuffersOfLen(n - 1), c \in DataChars }

\* what the memory holds beyond the buffer, up to a NUL
Beyond == { << NUL >>, << "z", NUL >> }

InitExtract ==
    /\ platform = << >>
    /\ enumeration = NullPtr
    /\ wmi = NullPtr
    /\ devices = << >>
    /\ lastError = ""
    /\ call = NoCall
    /\ outcome = "none"
    /\ ret = [ strings |-> << >>, read |-> {} ]
    /\ succeeded = FALSE

ExtractMultiString ==
    /\ call = NoCall
    /\ \E n \in 0..MaxData :
         \E data \in BuffersOfLen(n), numBytes \in 0..(SizeofWchar * n), beyond \in Beyond :
             LET r == ExtractMultiStringValue(data \o beyond, numBytes)
             IN  /\ call' = [ op |-> "ExtractMultiStringValue", args |-> << data, numBytes, beyond >> ]
                 /\ \/ /\ outcome' = "returned"
                       /\ ret' = r
                    \/ /\ \E o \in r.read : o >= Len(data)
                       /\ outcome' = "crashed"
                       /\ ret' = [ strings |-> << >>, read |-> r.read ]
    /\ UNCHANGED <<platform, enumeration, wmi, devices, lastError, succeeded>>

NextExtract == ExtractMultiString

SpecExtract == InitExtract /\ [][NextExtract]_vars

-----------------------------------------------------------------------------
(* Vocabulary of the claims about EnumerateAdapters *)

Enumerated == call.op = "EnumerateAdapters"
EnumFilter == call.args[1]
EnumIncludeIntegrated == call.args[2]
EnumIncludeDetachable == call.args[3]

\* the set produced by the call
UniqueAdapters == enumeration[1].uniqueAdapters

\* the adapter entries the platform handed out, in the order the call processed them
ProcessedEntries == Flatten(enumeration[1].adapterLists)

\* an entry that no rule of the enumeration discards
Surviving(a) ==
    LET d == ExtractAdapterDetails(a)
    IN  /\ d.IsHardware
        /\ ~(EnumFilter = DisplayOnly /\ d.SupportsCompute)
        /\ ~(EnumFilter = ComputeOnly /\ d.SupportsDisplay)
        /\ ~(EnumFilter = DisplayAndCompute /\ ~(d.SupportsDisplay /\ d.SupportsCompute))
        /\ (d.IsIntegrated => EnumIncludeIntegrated)
        /\ (d.IsDetachable => EnumIncludeDetachable)

SurvivingEntries == SelectSeq(ProcessedEntries, Surviving)

SurvivorsWithLuid(luid) == SelectSeq(SurvivingEntries, LAMBDA a : a.InstanceLuid = luid)

-----------------------------------------------------------------------------
(* Claims about EnumerateAdapters, checked under SpecEnum *)

\* C7 (as amended): when two surviving entries carry the same instance identifier, the
\* enumerated set holds one entry under that identifier, and its fields are those of
\* the surviving entry that was processed first.
C7_FirstEntryKept ==
    Enumerated =>
        \A luid \in Luids :
            LET same == SurvivorsWithLuid(luid)
            IN  Len(same) >= 1 =>
                    /\ luid \in DOMAIN UniqueAdapters
                    /\ UniqueAdapters[luid] = ExtractAdapterDetails(same[1])

\* C7 (as claimed): ... and its fields are those of the surviving entry that was
\* processed last.
C7_LastEntryKept ==
    Enumerated =>
        \A luid \in Luids :
            LET same == SurvivorsWithLuid(luid)
            IN  Len(same) >= 1 =>
                    /\ luid \in DOMAIN UniqueAdapters
                    /\ UniqueAdapters[luid] = ExtractAdapterDetails(same[Len(same)])

\* C7 witness: a call after which two surviving entries share an identifier and differ in
\* their fields.
C7_Witness ==
    /\ Enumerated
    /\ \E luid \in Luids :
         LET same == SurvivorsWithLuid(luid)
         IN  /\ Len(same) >= 2
             /\ same[1] # same[Len(same)]
             /\ luid \in DOMAIN UniqueAdapters

\* C8: with DisplayOnly no enumerated adapter has SupportsCompute, with ComputeOnly none
\* has SupportsDisplay, with DisplayAndCompute every one has both flags, and with
\* AllDevices every hardware adapter that passes the integrated and detachable gates is
\* enumerated whatever its capability flags.
C8_FilterCorrectness ==
    Enumerated =>
        /\ EnumFilter = DisplayOnly =>
               \A luid \in DOMAIN UniqueAdapters : ~UniqueAdapters[luid].SupportsCompute
        /\ EnumFilter = ComputeOnly =>
               \A luid \in DOMAIN UniqueAdapters : ~UniqueAdapters[luid].SupportsDisplay
        /\ EnumFilter = DisplayAndCompute =>
               \A luid \in DOMAIN UniqueAdapters :
                   UniqueAdapters[luid].SupportsDisplay /\ UniqueAdapters[luid].SupportsCompute
        /\ EnumFilter = AllDevices =>
               \A i \in 1..Len(platform) :
                   ( /\ platform[i].IsHardware
                     /\ (platform[i].IsIntegrated => EnumIncludeIntegrated)
                     /\ (platform[i].IsDetachable => EnumIncludeDetachable) )
                   => platform[i].InstanceLuid \in DOMAIN UniqueAdapters

\* C8 witness: a DisplayOnly call that kept a display adapter and discarded a hardware
\* adapter for its compute flag.
C8_Witness ==
    /\ Enumerated
    /\ EnumFilter = DisplayOnly
    /\ EnumIncludeIntegrated /\ EnumIncludeDetachable
    /\ UniqueAdapters # EmptyMap
    /\ \E i \in 1..Len(platform) :
         /\ platform[i].IsHardware
         /\ ExtractAdapterDetails(platform[i]).SupportsCompute
         /\ platform[i].InstanceLuid \notin DOMAIN UniqueAdapters

\* C9 (as claimed): with DisplaySupported every enumerated adapter supports display, and
\* with ComputeSupported every enumerated adapter supports compute.
C9_SupportedFilters ==
    Enumerated =>
        /\ EnumFilter = DisplaySupported =>
               \A luid \in DOMAIN UniqueAdapters : UniqueAdapters[luid].SupportsDisplay
        /\ EnumFilter = ComputeSupported =>
               \A luid \in DOMAIN UniqueAdapters : UniqueAdapters[luid].SupportsCompute

\* C10: no adapter with IsHardware = FALSE is in the enumerated set, for every filter and
\* every combination of the include flags.
C10_NoSoftwareAdapter ==
    Enumerated => \A luid \in DOMAIN UniqueAdapters : UniqueAdapters[luid].IsHardware

\* C10 witness: the platform handed out a software adapter that no capability rule or
\* gate discards, and the call left it out while keeping a hardware adapter.
C10_Witness ==
    /\ Enumerated
    /\ EnumFilter = AllDevices
    /\ UniqueAdapters # EmptyMap
    /\ \E i \in 1..Len(ProcessedEntries) :
         /\ ~ProcessedEntries[i].IsHardware
         /\ ProcessedEntries[i].InstanceLuid \notin DOMAIN UniqueAdapters

\* the platform reports each adapter consistently: entries that carry the same LUID are
\* the same adapter
LuidsIdentifyAdapters ==
    \A i, j \in 1..Len(platform) :
        platform[i].InstanceLuid = platform[j].InstanceLuid => platform[i] = platform[j]

\* the set a second run over the same platform and filter produces with the given gates
RunWith(includeIntegrated, includeDetachable) ==
    EnumerateAdapters(platform, EnumFilter, includeIntegrated, includeDetachable,
                      NoFault).uniqueAdapters

\* the map m without the adapters whose field (IsIntegrated, IsDetachable) is set
Without(m, field) ==
    [ luid \in { l \in DOMAIN m : ~m[l][field] } |-> m[luid] ]

SameMap(m, n) == DOMAIN m = DOMAIN n /\ \A k \in DOMAIN m : m[k] = n[k]

InQueriedGroup(a) ==
    \/ D3D11_GRAPHICS \in a.attrs /\ EnumFilter \notin {ComputeOnly, DisplayAndCompute}
    \/ D3D12_GRAPHICS \in a.attrs /\ EnumFilter # ComputeOnly
    \/ D3D12_CORE_COMPUTE \in a.attrs /\ EnumFilter # DisplayOnly

\* the entries of the platform that the enumeration is to keep
Expected == { i \in 1..Len(platform) : InQueriedGroup(platform[i]) /\ Surviving(platform[i]) }

\* C12: the enumerated set holds exactly the adapters that are in a capability group
\* queried for the filter, are hardware, pass the filter's capability check and pass the
\* integrated and detachable gates; over the example platform, DisplayAndCompute with
\* includeIntegrated false and includeDetachable true yields exactly B.
C12_ExactSet ==
    Enumerated =>
        /\ DOMAIN UniqueAdapters = { platform[i].InstanceLuid : i \in Expected }
        /\ \A luid \in DOMAIN UniqueAdapters :
             \E i \in Expected : UniqueAdapters[luid] = ExtractAdapterDetails(platform[i])
        /\ ( /\ platform = ExamplePopulation
             /\ EnumFilter = DisplayAndCompute
             /\ ~EnumIncludeIntegrated /\ EnumIncludeDetachable )
           => /\ DOMAIN UniqueAdapters = {2}
              /\ UniqueAdapters[2] = ExtractAdapterDetails(ExamplePopulation[2])

\* C12 witness: the run of the example, which kept B alone.
C12_Witness ==
    /\ Enumerated
    /\ platform = ExamplePopulation
    /\ EnumFilter = DisplayAndCompute
    /\ ~EnumIncludeIntegrated /\ EnumIncludeDetachable
    /\ DOMAIN UniqueAdapters = {2}

-----------------------------------------------------------------------------
(* Claims about GetDevicesForAdapters, checked under SpecCorrelate *)

Correlated == call.op = "GetDevicesForAdapters" /\ outcome = "returned"

\* the adapter set given to the call, and the entities the WQL query of the call selects
AdapterSet == enumeration[1].uniqueAdapters

SelectedRecords ==
    SelectSeq(call.args[1].entities,
              LAMBDA e : e.HardwareID \in { AdapterSet[l].HardwareID : l \in DOMAIN AdapterSet })

\* the LUID an entity reports
ReportedLuid(e) == ExtractDeviceDetails(e).details.DeviceAdapter.InstanceLuid

\* the adapter of every output device is the adapter the set holds under the device's LUID
DevicesCarrySetAdapters ==
    \A i \in 1..Len(devices) :
        /\ devices[i].DeviceAdapter.InstanceLuid \in DOMAIN AdapterSet
        /\ devices[i].DeviceAdapter = AdapterSet[devices[i].DeviceAdapter.InstanceLuid]

\* C13 (as amended): the adapter identifier of every output device is a key of the adapter
\* set; the device list has at most as many entries as the query returned entities, and
\* at most as many as the adapter set when no two returned entities report the same LUID.
C13_DevicesWithinRecords ==
    Correlated =>
        /\ DevicesCarrySetAdapters
        /\ Len(devices) <= Len(SelectedRecords)
        /\ (\A i, j \in 1..Len(SelectedRecords) :
               ReportedLuid(SelectedRecords[i]) = ReportedLuid(SelectedRecords[j]) => i = j)
           => Len(devices) <= Cardinality(DOMAIN AdapterSet)

\* C13 (as claimed): the device list has at most as many entries as the adapter set, and
\* the adapter identifier of every output device is a key of the adapter set.
C13_DevicesWithinAdapters ==
    Correlated =>
        /\ Len(devices) <= Cardinality(DOMAIN AdapterSet)
        /\ DevicesCarrySetAdapters

\* C13 witness: a call over two adapters for which the service returned an entity of one of
\* them and an entity of no enumerated adapter; the first became a device, the second was
\* dropped.
C13_Witness ==
    /\ Correlated
    /\ Cardinality(DOMAIN AdapterSet) = 2
    /\ Len(devices) = 1
    /\ Len(SelectedRecords) = 2
    /\ ReportedLuid(SelectedRecords[1]) # ReportedLuid(SelectedRecords[2])

-----------------------------------------------------------------------------
(* Further claims about GetDevicesForAdapters, checked under SpecCorrelate *)

\* the returned records whose reported LUID is a key of the adapter set, in the order the
\* enumerator returned them
KeptRecords == SelectSeq(SelectedRecords, LAMBDA e : ReportedLuid(e) \in DOMAIN AdapterSet)

\* C24: the call returns exactly the returned PnP records whose adapter identifier is a
\* key of the adapter set, in the order the platform enumerated them; the adapter of each
\* kept record is the enumerated adapter stored under that key, with all its flags and
\* its hardware id; every other record is dropped.
C24_CorrelateKeepsMatchesInOrder ==
    Correlated =>
        /\ Len(devices) = Len(KeptRecords)
        /\ \A i \in 1..Len(devices) :
             /\ devices[i].ID = KeptRecords[i].DeviceID
             /\ devices[i].Description = KeptRecords[i].Description
             /\ devices[i].Vendor = KeptRecords[i].Manufacturer
             /\ devices[i].DeviceAdapter = AdapterSet[ReportedLuid(KeptRecords[i])]

\* of two returned records the first reports the higher LUID, one as a string and one as
\* an integer; both are keys, and the devices come out in the order of the records, each
\* with the integrated flag of its enumerated adapter
C24_Witness ==
    /\ Correlated
    /\ Len(SelectedRecords) = 2 /\ Len(devices) = 2
    /\ ReportedLuid(SelectedRecords[1]) = 2 /\ ReportedLuid(SelectedRecords[2]) = 1
    /\ SelectedRecords[1].AdapterLuid.vt = "VT_BSTR"
    /\ SelectedRecords[2].AdapterLuid.vt = "VT_I8"
    /\ devices[1].DeviceAdapter.InstanceLuid = 2 /\ devices[1].DeviceAdapter.IsIntegrated
    /\ ~devices[2].DeviceAdapter.IsIntegrated

-----------------------------------------------------------------------------
(* Claims about the RuntimeFile constructor, checked under SpecRuntimeFile *)

Constructed == call.op = "RuntimeFile"

\* name is the final segment of path: path ends with name, name holds no separator, and
\* what precedes it is empty, the root name of a drive, or ends with a separator
IsFinalSegment(name, path) ==
    \E k \in 0..Len(path) :
        /\ name = SubSeq(path, k + 1, Len(path))
        /\ \A i \in 1..Len(name) : name[i] \notin Separators
        /\ k >= RootNameEnd(path)
        /\ k = 0 \/ k = RootNameEnd(path) \/ path[k] \in Separators

\* C19: a RuntimeFile constructed with an empty destination has as DestinationFilename the
\* final segment of its source path ("nvldumdx\driver.dll" gives "driver.dll"); constructed
\* with a non-empty destination it keeps that destination; SourcePath is the given source
\* in both cases.
C19_RuntimeFileConstructor ==
    Constructed =>
        /\ ret.SourcePath = call.args[1]
        /\ call.args[2] # << >> => ret.DestinationFilename = call.args[2]
        /\ call.args[2] = << >> => IsFinalSegment(ret.DestinationFilename, call.args[1])
        /\ (call.args[1] = ExampleSource /\ call.args[2] = << >>)
               => ret.DestinationFilename = DriverDll

\* C19 witness: the construction of the example, from "nvldumdx\driver.dll" and no
\* destination.
C19_Witness ==
    /\ Constructed
    /\ call.args = <<ExampleSource, << >> >>
    /\ ret.DestinationFilename = DriverDll

-----------------------------------------------------------------------------
(* Claims about FillDriverDetails, checked under SpecResolve *)

Resolved == call.op = "FillDriverDetails"

\* the platform's answer to the call, and the device after it
ResolveAnswer == call.args[1]
ResolvedDevice == devices[1]

\* the adapter handle opened and the driver store path query returned a success NTSTATUS
HandleAndQueryReturned ==
    /\ ~ResolveAnswer.openFails
    /\ ResolveAnswer.query.ntFailsAt \notin 1..(ResolveAnswer.query.overflows + 1)

\* the driver store path the query answered holds the marker
PathHasMarker ==
    \E i \in 1..Len(ResolveAnswer.query.OutputString) :
        ResolveAnswer.query.OutputString[i] = HostDriverStore

\* the sub-key does not open, or a RegEnumValueW call fails, or a value has the wrong type
KeyFails(k) ==
    \/ k.openFails
    \/ k.enumFailsAt \in 1..(Len(k.values) + 1)
    \/ \E i \in 1..Len(k.values) : k.values[i].type # "REG_MULTI_SZ"

\* the runtime files a sub-key offers, in ascending order of the value names
Offered(k) ==
    IF KeyFails(k) THEN << >>
    ELSE LET byName == [ i \in 1..Len(k.values) |->
                           (CHOOSE v \in { k.values[j] : j \in 1..Len(k.values) } : v.name = i).strings ]
             given  == SelectSeq(byName, LAMBDA strings : strings # << >>)
         IN  [ i \in 1..Len(given) |->
                 RuntimeFile(given[i][1], IF Len(given[i]) = 2 THEN given[i][2] ELSE << >>) ]

\* the runtime files offered to the System32 list or to the SysWOW64 list, in the order
\* the sub-keys are read
OfferedTo(isWow64) ==
    IF isWow64 THEN Offered(ResolveAnswer.keys[3]) \o Offered(ResolveAnswer.keys[4])
    ELSE Offered(ResolveAnswer.keys[1]) \o Offered(ResolveAnswer.keys[2])

\* the entries of a sequence whose destination no earlier entry has
RECURSIVE FirstWins(_, _)
FirstWins(offered, i) ==
    IF i > Len(offered) THEN << >>
    ELSE (IF \E j \in 1..(i - 1) : offered[j].DestinationFilename = offered[i].DestinationFilename
          THEN << >> ELSE << offered[i] >>)
         \o FirstWins(offered, i + 1)

DistinctDestinations(list) ==
    \A i, j \in 1..Len(list) :
        list[i].DestinationFilename = list[j].DestinationFilename => i = j

\* C14: after FillDriverDetails no two entries of a runtime-file list of the device share a
\* DestinationFilename, and of the entries offered to a list with the same destination only
\* the first one read is in the list.
C14_DestinationsUnique ==
    (Resolved /\ outcome = "returned") =>
        /\ DistinctDestinations(ResolvedDevice.RuntimeFiles)
        /\ DistinctDestinations(ResolvedDevice.RuntimeFilesWow64)
        /\ ~PathHasMarker =>
               /\ ResolvedDevice.RuntimeFiles = FirstWins(OfferedTo(FALSE), 1)
               /\ ResolvedDevice.RuntimeFilesWow64 = FirstWins(OfferedTo(TRUE), 1)

\* C14 witness: two sub-keys of the System32 list offered three entries of which two share
\* a destination; the list holds two entries.
C14_Witness ==
    /\ Resolved /\ outcome = "returned"
    /\ ~KeyFails(ResolveAnswer.keys[1]) /\ ~KeyFails(ResolveAnswer.keys[2])
    /\ Len(Offered(ResolveAnswer.keys[1])) = 1
    /\ Len(Offered(ResolveAnswer.keys[2])) = 2
    /\ Len(ResolvedDevice.RuntimeFiles) = 2
    /\ ResolvedDevice.RuntimeFiles[1].SourcePath = ExampleSource

\* the answer in which the sub-key at index is readable and empty
WithEmptyKey(reg, index) ==
    [ reg EXCEPT !.keys[index] = KeyAnswer(<< >>, FALSE, 0) ]

\* C15: when the adapter handle and the driver store path are obtained on the host and
\* sub-keys fail, FillDriverDetails returns, and the device is exactly the device it
\* produces when each failing sub-key is empty instead: the failing sub-key adds no entry
\* and the other sub-keys' entries are there.
C15_FailingKeyIsEmptyKey ==
    (Resolved /\ HandleAndQueryReturned /\ ~PathHasMarker) =>
        /\ outcome = "returned"
        /\ \A index \in 1..Len(RuntimeFileKeys) :
             KeyFails(ResolveAnswer.keys[index]) =>
                 ResolvedDevice =
                     FillDriverDetails(ResolveDevice, WithEmptyKey(ResolveAnswer, index)).device

\* C15 witness: the second sub-key failed at its third RegEnumValueW call, after two values
\* were enumerated; the System32 list holds the entries of the first sub-key alone and the
\* SysWOW64 list holds an entry.
C15_Witness ==
    /\ Resolved /\ outcome = "returned"
    /\ HandleAndQueryReturned /\ ~PathHasMarker
    /\ ~KeyFails(ResolveAnswer.keys[1])
    /\ Offered(ResolveAnswer.keys[1]) # << >>
    /\ ResolveAnswer.keys[2] = KeyAnswer(TwoValues, FALSE, 3)
    /\ ResolvedDevice.RuntimeFiles = FirstWins(Offered(ResolveAnswer.keys[1]), 1)
    /\ ResolvedDevice.RuntimeFilesWow64 # << >>

\* C16 (as claimed): a failure to open the adapter handle, and a failure of the driver
\* store path query, signalled by the NTSTATUS of the call or by the status of the query
\* result, leaves FillDriverDetails as an error.
C16_FatalFailuresPropagate ==
    (Resolved /\ ( \/ ~HandleAndQueryReturned
                   \/ ResolveAnswer.query.status = "FAIL" )) => outcome = "threw"

\* C20: when the driver store path holds the HostDriverStore marker, FillDriverDetails
\* returns without reading a runtime-file sub-key and both runtime-file lists of the device
\* are empty.
C20_ContainerSkipsRuntimeFiles ==
    (Resolved /\ HandleAndQueryReturned /\ PathHasMarker) =>
        /\ outcome = "returned"
        /\ ret = 0
        /\ ResolvedDevice.RuntimeFiles = << >>
        /\ ResolvedDevice.RuntimeFilesWow64 = << >>

\* C20 witness: a call answered with a container's driver store path while the sub-keys
\* hold values; the device has the path and no runtime file.
C20_Witness ==
    /\ Resolved /\ outcome = "returned"
    /\ PathHasMarker
    /\ ResolveAnswer.keys[1] = KeyAnswer(TwoValues, FALSE, 0)
    /\ ResolvedDevice.DriverStorePath = ContainerPath
    /\ ResolvedDevice.RuntimeFiles = << >>

-----------------------------------------------------------------------------
(***************************************************************************)
(* Claims about the session (specification Spec).                          *)
(***************************************************************************)

\* the last operation returned to its caller
Returned == call.op # "none" /\ outcome = "returned"

\* the last operation returned the failure sentinel of its return type
ReportedFailure ==
    /\ Returned
    /\ CASE call.op = "DiscoverDevices" -> ret = -1
         [] call.op = "GetNumDevices" -> ret = -1
         [] call.op = "GetDeviceField" ->
              IF call.args[1] \in IntFields THEN ret = -1 ELSE ret = NullString
         [] call.op = "GetRuntimeFileField" -> ret = NullString
         [] OTHER -> FALSE

\* no adapter list of the session is a null handle or reports staleness
NoStaleHandle ==
    /\ enumeration # NullPtr
    /\ \A i \in 1..Len(enumeration[1].adapterLists) :
         ~enumeration[1].adapterLists[i].null /\ ~enumeration[1].adapterLists[i].stale

\* C1: a DiscoverDevices call that returns the failure sentinel -1, whatever the stage
\* that failed, leaves the session's device list as it was before the call.
C1_FailedDiscoverKeepsDevices ==
    [][ (call'.op = "DiscoverDevices" /\ outcome' = "returned" /\ ret' = -1)
          => devices' = devices ]_vars

\* C2: GetNumDevices returns -1 and sets the last error whenever no DiscoverDevices call
\* of the session has succeeded yet, and the length of the device list otherwise.
C2_GetNumDevices ==
    (call.op = "GetNumDevices" /\ outcome = "returned") =>
        IF succeeded THEN ret = Len(devices) ELSE ret = -1 /\ lastError # ""

\* C3: while no DiscoverDevices call of the session has succeeded, every per-device and
\* per-file accessor reports an error (sentinel and last error) for every index.
C3_AccessorsNeedReady ==
    (call.op \in {"GetDeviceField", "GetRuntimeFileField"} /\ Returned /\ ~succeeded) =>
        ReportedFailure /\ lastError # ""

\* C4: whenever IsRefreshRequired returns, it returns true if no DiscoverDevices call has
\* succeeded yet, and false if it directly follows a successful DiscoverDevices with no
\* adapter list reporting staleness.
C4_IsRefreshRequired ==
    [][ (call'.op = "IsRefreshRequired" /\ outcome' = "returned") =>
          /\ ~succeeded' => ret' = 1
          /\ (call.op = "DiscoverDevices" /\ outcome = "returned" /\ ret = 0
                /\ NoStaleHandle) => ret' = 0 ]_vars

\* C5: no exception leaves a DiscoverDevices call: it returns, and when it returns the
\* failure sentinel -1 the last error is a non-empty message.
C5_DiscoverNeverThrows ==
    call.op = "DiscoverDevices" =>
        /\ outcome = "returned"
        /\ ret = -1 => lastError # ""

\* C6: after every operation that returns, the last error is the empty string if the
\* operation succeeded and a non-empty message if it failed.
C6_LastErrorTracksLastCall ==
    Returned => (lastError = "" <=> ~ReportedFailure)


\* the per-device and per-file accessors
Accessors == { "GetDeviceField", "GetRuntimeFileField" }

\* the device index and the file index an accessor call was given
DeviceIndex(c) == IF c.op = "GetDeviceField" THEN c.args[2] ELSE c.args[3]
FileIndex(c) == c.args[4]

\* the runtime-file list of the device list ds that a per-file accessor call addresses
AddressedFiles(ds, c) ==
    IF c.args[1] THEN ds[DeviceIndex(c) + 1].RuntimeFilesWow64
    ELSE ds[DeviceIndex(c) + 1].RuntimeFiles

\* the indices of an accessor call address a device of ds and, for a per-file accessor,
\* a file of that device's list
InRange(ds, c) ==
    /\ DeviceIndex(c) < Len(ds)
    /\ c.op = "GetRuntimeFileField" => FileIndex(c) < Len(AddressedFiles(ds, c))

\* this step is a call of an accessor (a topology change keeps the record of the last call)
AccessorStep == call'.op \in Accessors /\ platform' = platform

\* C17: an accessor called with a device index at or beyond the length of the device
\* list, or a per-file accessor called with a file index at or beyond the length of the
\* addressed list, returns its failure sentinel and sets the last error, and leaves the
\* device list and the adapter enumeration as they were.
C17_OutOfRangeIndexReported ==
    [][ (AccessorStep /\ ~InRange(devices, call')) =>
          /\ ReportedFailure'
          /\ lastError' # ""
          /\ devices' = devices
          /\ enumeration' = enumeration
          /\ wmi' = wmi ]_vars

\* after a successful DiscoverDevices that found a device, a per-device accessor was
\* called with the length of the device list as index and reported the failure
C17_Witness ==
    /\ succeeded /\ Len(devices) >= 1
    /\ call.op = "GetDeviceField" /\ DeviceIndex(call) = Len(devices)
    /\ ReportedFailure
    /\ lastError # ""

\* the field of the device list ds that an accessor call with indices in range asks for
RequestedField(ds, c) ==
    IF c.op = "GetDeviceField" THEN DeviceFieldValue(ds[DeviceIndex(c) + 1], c.args[1])
    ELSE IF c.args[2] = "Source" THEN CString(AddressedFiles(ds, c)[FileIndex(c) + 1].SourcePath)
    ELSE CString(AddressedFiles(ds, c)[FileIndex(c) + 1].DestinationFilename)

\* this step is a GetNumDevices call, or an accessor call with indices in range, of a
\* session in which a DiscoverDevices call has succeeded
ValidQueryStep ==
    /\ succeeded /\ platform' = platform
    /\ \/ call'.op = "GetNumDevices"
       \/ call'.op \in Accessors /\ InRange(devices, call')

\* such a step returns the length of the device list, or the requested field
AnswersQuery ==
    /\ outcome' = "returned"
    /\ ~ReportedFailure'
    /\ IF call'.op = "GetNumDevices" THEN ret' = Len(devices) /\ ret' >= 0
       ELSE ret' = RequestedField(devices, call')

\* C18 (as stated): once a DiscoverDevices call has succeeded, GetNumDevices returns
\* n >= 0 and every accessor called with indices in range returns the requested field
\* without error, and the call changes neither the device list, nor the adapter
\* enumeration, nor the last error.
C18_NoSideEffect ==
    [][ ValidQueryStep =>
          /\ AnswersQuery
          /\ devices' = devices /\ enumeration' = enumeration /\ wmi' = wmi
          /\ lastError' = lastError ]_vars

\* C18 (amended): once a DiscoverDevices call has succeeded, GetNumDevices returns n >= 0
\* and every accessor called with indices in range returns the requested field without
\* error; the call changes neither the device list nor the adapter enumeration, and it
\* sets the last error to the empty string, whatever message a failed call left there.
C18_ValidQueryClearsLastError ==
    [][ ValidQueryStep =>
          /\ AnswersQuery
          /\ devices' = devices /\ enumeration' = enumeration /\ wmi' = wmi
          /\ lastError' = "" ]_vars

\* after a successful DiscoverDevices, a per-file accessor called with indices in range
\* returned the source path of the addressed runtime file, with no error reported
C18_Witness ==
    /\ succeeded
    /\ call.op = "GetRuntimeFileField" /\ call.args[2] = "Source"
    /\ InRange(devices, call)
    /\ Returned /\ ~ReportedFailure
    /\ ret = CString(AddressedFiles(devices, call)[FileIndex(call) + 1].SourcePath)
    /\ lastError = ""

-----------------------------------------------------------------------------
(***************************************************************************)
(* Claims about released resources (specification SpecRelease).            *)
(***************************************************************************)

\* C21: every platform resource acquired while a PnP record is extracted during a
\* discovery (handles, locked arrays, COM references of the record and of its
\* properties) has been released when the call is left, by return or by exception.
C21_AllResourcesReleased ==
    call.op = "ExtractDeviceDetails" => ret = << >>

-----------------------------------------------------------------------------
(***************************************************************************)
(* Claims about two instances (specification SpecPair).                    *)
(***************************************************************************)

\* the members of the other instance are what they were before the step
Untouched(instance) ==
    /\ instance \in DOMAIN devices'
    /\ devices'[instance] = devices[instance]
    /\ lastError'[instance] = lastError[instance]
    /\ enumeration'[instance] = enumeration[instance]
    /\ wmi'[instance] = wmi[instance]

\* C22: two instances are independent under every interleaving of their operations: no
\* DiscoverDevices, accessor, IsRefreshRequired or destruction of one changes the device
\* list, the last error or the adapter enumeration of the other.
C22_InstancesIndependent ==
    [][ \A instance \in DOMAIN devices :
          instance # call'.instance => Untouched(instance) ]_vars

\* one instance holds the devices of a successful discovery and no error while the last
\* operation, on the other instance, failed and left its message there
C22_Witness ==
    /\ DOMAIN devices = Instances
    /\ \E instance \in Instances :
         /\ call.op = "DiscoverDevices" /\ call.instance = instance
         /\ outcome = "returned" /\ ret = -1
         /\ lastError[instance] # ""
         /\ \E other \in Instances \ {instance} :
              /\ devices[other] # << >> /\ lastError[other] = ""
              /\ devices[instance] = << >>

-----------------------------------------------------------------------------
(***************************************************************************)
(* Claims about PerformQuery (specification SpecQuery).                    *)
(***************************************************************************)

Querying == call.op = "PerformQuery"
QueryBackend == call.args[1]

\* the backend stops reporting overflow once the trailing buffer has the size it last
\* reported as required
StopsOverflowing(backend) ==
    \A attempt \in 1..(MaxBuffer + 2), trailing \in 0..MaxBuffer :
        LET answer == BackendAnswer(backend, attempt, trailing)
        IN  answer.Status = BufferOverflow =>
                BackendAnswer(backend, attempt + 1, answer.OutputValueSize).Status # BufferOverflow

\* a call that has returned received a status other than buffer-overflow last
ReturnedOnFinalStatus ==
    (Querying /\ outcome = "returned") =>
        ret.answers[Len(ret.answers)].Status # BufferOverflow

\* every retry carried a trailing buffer of exactly the size the call before it reported,
\* and the request fields of the first call
RetriesAsReported ==
    Querying => \A k \in 2..Len(ret.issued) :
        /\ ret.issued[k].trailing = ret.answers[k - 1].OutputValueSize
        /\ [ ret.issued[k] EXCEPT !.trailing = 0 ] = [ ret.issued[1] EXCEPT !.trailing = 0 ]

\* C23: PerformQuery returns only when the platform reports a status other than
\* buffer-overflow; each retry is issued with the trailing buffer resized to exactly the
\* size last reported and with query type, flags and value name unchanged; and against a
\* backend that stops reporting overflow once the buffer has the size it last reported,
\* the call eventually returns (or throws for a failure NTSTATUS).
C23_PerformQueryRetries ==
    /\ [](ReturnedOnFinalStatus /\ RetriesAsReported)
    /\ (Querying /\ StopsOverflowing(QueryBackend)) ~> (outcome \in {"returned", "threw"})

\* a query of an adapter key value returned after exactly one retry, which carried the
\* three units the first answer asked for
C23_Witness ==
    /\ Querying /\ outcome = "returned"
    /\ StopsOverflowing(QueryBackend)
    /\ Len(ret.issued) = 2
    /\ ret.issued[1].ValueName = "UserModeDriverName"
    /\ ret.answers[1].Status = BufferOverflow /\ ret.answers[1].OutputValueSize = 3
    /\ ret.issued[2].trailing = 3

-----------------------------------------------------------------------------
(***************************************************************************)
(* Claims about repeated enumeration (specification SpecReenumerate).      *)
(***************************************************************************)

\* the last step was an EnumerateAdapters call that returned, on the present platform
Reenumerated ==
    /\ call.op = "EnumerateAdapters" /\ outcome = "returned"
    /\ \A i \in 1..Len(enumeration[1].adapterLists) : ~enumeration[1].adapterLists[i].stale

\* what the same call yields on an AdapterEnumeration that has never enumerated
OnNewObject ==
    EnumerateAdapters(platform, call.args[1], call.args[2], call.args[3], call.args[4])

\* C25: each EnumerateAdapters call discards the result of the previous call before it
\* collects: after any sequence of calls, the adapter set and the adapter lists are those
\* the last call yields from its arguments and the platform's answer alone.
C25_EnumerationStartsAfresh ==
    Reenumerated =>
        /\ enumeration[1].uniqueAdapters = OnNewObject.uniqueAdapters
        /\ enumeration[1].adapterLists = OnNewObject.adapterLists

\* before the last call the object held adapter 1 as an integrated adapter; the call
\* returned a set without it
C25_Witness ==
    /\ Reenumerated
    /\ 1 \in DOMAIN ret /\ ret[1].IsIntegrated
    /\ 1 \notin DOMAIN enumeration[1].uniqueAdapters
    /\ 2 \in DOMAIN enumeration[1].uniqueAdapters

-----------------------------------------------------------------------------
(* Further claims about EnumerateAdapters, checked under SpecEnum *)

\* the entries of the platform that alone carry their LUID and were kept by the call
KeptAlone ==
    { i \in 1..Len(platform) :
        /\ platform[i].InstanceLuid \in DOMAIN UniqueAdapters
        /\ \A j \in 1..Len(platform) :
             platform[j].InstanceLuid = platform[i].InstanceLuid => j = i }

\* C26: for every adapter, the extracted SupportsCompute flag is true iff the adapter
\* supports DXCORE_ADAPTER_ATTRIBUTE_D3D12_CORE_COMPUTE, and SupportsDisplay is true iff it
\* supports the D3D11 graphics or the D3D12 graphics attribute.
C26_CapabilityFlags ==
    Enumerated =>
        \A i \in KeptAlone :
            LET details == UniqueAdapters[platform[i].InstanceLuid]
            IN  /\ details.SupportsCompute <=> D3D12_CORE_COMPUTE \in platform[i].attrs
                /\ details.SupportsDisplay <=>
                     (D3D11_GRAPHICS \in platform[i].attrs \/ D3D12_GRAPHICS \in platform[i].attrs)

-----------------------------------------------------------------------------
(* Further claims about the session (specification Spec) *)

\* C27: in every state reachable by DiscoverDevices calls, successful or failed, every
\* adapter list the enumeration holds is a non-null handle, and no IsRefreshRequired call
\* dereferences a null handle.
C27_NoNullListHandle ==
    /\ enumeration # NullPtr =>
         \A i \in 1..Len(enumeration[1].adapterLists) : ~enumeration[1].adapterLists[i].null
    /\ outcome # "crashed"

-----------------------------------------------------------------------------
(* Further claims about FillDriverDetails, checked under SpecResolve *)

\* the entries of a sequence of runtime files that have the destination
WithDestination(files, destination) ==
    SelectSeq(files, LAMBDA file : file.DestinationFilename = destination)

\* the runtime-file list of the device that the sub-key at index feeds
ListOf(index) ==
    IF RuntimeFileKeys[index].isWow64 THEN ResolvedDevice.RuntimeFilesWow64
    ELSE ResolvedDevice.RuntimeFiles

\* C28: after FillDriverDetails on the host, a destination offered both by the Overwrite
\* sub-key and by the WhenNewer sub-key of a runtime is in the list with the entry of the
\* Overwrite sub-key; and of the entries of one sub-key with the same destination, which no
\* sub-key read before it offered, the list holds the one with the least value name.
C28_OverwriteKeyWinsInNameOrder ==
    (Resolved /\ outcome = "returned" /\ ~PathHasMarker) =>
        /\ \A overwrite \in {1, 3} :
             LET first  == Offered(ResolveAnswer.keys[overwrite])
                 second == Offered(ResolveAnswer.keys[overwrite + 1])
             IN  \A i \in 1..Len(first), j \in 1..Len(second) :
                     first[i].DestinationFilename = second[j].DestinationFilename =>
                         WithDestination(ListOf(overwrite), first[i].DestinationFilename)
                             = << Head(WithDestination(first, first[i].DestinationFilename)) >>
        /\ \A index \in 1..Len(RuntimeFileKeys) :
             LET offered == Offered(ResolveAnswer.keys[index])
                 earlier == IF index \in {2, 4} THEN Offered(ResolveAnswer.keys[index - 1])
                            ELSE << >>
             IN  \A i \in 1..Len(offered) :
                     WithDestination(earlier, offered[i].DestinationFilename) = << >> =>
                         WithDestination(ListOf(index), offered[i].DestinationFilename)
                             = << Head(WithDestination(offered, offered[i].DestinationFilename)) >>

\* C28 witness: the Overwrite sub-key was enumerated with its value names descending and
\* its two values have the destination that the WhenNewer sub-key's value has; the list
\* holds the entry of the Overwrite value with the least name; the two Wow64 sub-keys
\* offered one destination and the SysWOW64 list holds the Overwrite entry.
C28_Witness ==
    /\ Resolved /\ outcome = "returned" /\ ~PathHasMarker
    /\ ResolveAnswer.keys[1] =
           KeyAnswer(<< MultiSz(2, << ExampleSource >>), MultiSz(1, << OtherSource, DriverDll >>) >>,
                     FALSE, 0)
    /\ ResolveAnswer.keys[2] = KeyAnswer(<< MultiSz(1, << ExampleSource >>) >>, FALSE, 0)
    /\ ResolvedDevice.RuntimeFiles = << RuntimeFile(OtherSource, DriverDll) >>
    /\ Offered(ResolveAnswer.keys[4]) = << RuntimeFile(OtherSource, DriverDll) >>
    /\ ResolvedDevice.RuntimeFilesWow64 = << RuntimeFile(Wow64Source, DriverDll) >>

-----------------------------------------------------------------------------
(* Claims about ErrorHandling, checked under SpecError *)

Checked == call.op \in { "CheckNtStatus", "CheckHresult", "CheckWin32" }

\* the status handed to the conversion is a failure of its kind
FailingStatus ==
    IF call.op = "CheckWin32" THEN call.args[1] # 0 ELSE call.args[1] < 0

\* C29: the error object of a failing NTSTATUS, HRESULT or Win32 error tests true whatever
\* the message text of the platform, and the error object of a succeeding status tests
\* false.
C29_FailureTestsTrue ==
    Checked => (succeeded <=> FailingStatus)

-----------------------------------------------------------------------------
(* Claims about ExtractMultiStringValue, checked under SpecExtract *)

Extracted == call.op = "ExtractMultiStringValue"

\* the NUL-terminated strings of a sequence of characters, up to the first empty one
RECURSIVE TerminatedStrings(_)
TerminatedStrings(chars) ==
    IF \A i \in 1..Len(chars) : chars[i] # NUL THEN << >>
    ELSE LET end == CHOOSE i \in 1..Len(chars) :
                        chars[i] = NUL /\ \A j \in 1..(i - 1) : chars[j] # NUL
         IN  IF end = 1 THEN << >>
             ELSE << SubSeq(chars, 1, end - 1) >>
                      \o TerminatedStrings(SubSeq(chars, end + 1, Len(chars)))

\* C30: an ExtractMultiStringValue call returns, reads only the characters at offsets below
\* numBytes / sizeof(wchar_t), and returns the NUL-terminated non-empty strings of those
\* characters that precede the first empty string.
C30_ReadsWithinByteCount ==
    Extracted =>
        LET data       == call.args[1]
            upperBound == call.args[2] \div SizeofWchar
        IN  /\ outcome = "returned"
            /\ \A o \in ret.read : o < upperBound
            /\ ret.strings = TerminatedStrings(SubSeq(data, 1, upperBound))

=============================================================================
